---------------------------- MODULE Spec2Model ----------------------------
(***************************************************************************)
(* Callback registry, reference-counted mapping index, signal connection   *)
(* manager and source-trampoline multiplexer of puregotk (package glib,    *)
(* package gobject).                                                       *)
(*                                                                         *)
(* Go maps are modelled as functions with a finite, changing domain.  The  *)
(* package-level struct `callbacks` is the record variable callbacks, the  *)
(* struct `sourceTrampolines` the record variable sourceTrampolines.       *)
(* Every exported function of the index holds callbacks.Lock() for its     *)
(* whole body, so one call is one atomic step.                             *)
(***************************************************************************)
EXTENDS Integers, Sequences, FiniteSets, TLC

\* ------------------------------------------------------------------ bounds
MaxToken == 2
MaxHandler == 1
MaxSource == 1
MaxOps == 3
MaxThread == 2
MaxNativeHandler == 2
MaxAlloc == 2
MaxReg == 2
MaxNativeSource == 2
MaxInvoke == 2
WordBits == 2
MaxLibCalls == 3
MaxFiles == 2
MaxNameCalls == 1
MaxFrameToken == 3
MaxFrameId == 2

\* closure identities: cbPtr, the address of the closure's storage
Tokens == 1..MaxToken
\* handler ids and source ids a caller may pass; 0 is the invalid id
HandlerIds == 0..MaxHandler
SourceIds == 0..MaxSource
Threads == 1..MaxThread

VARIABLES
    callbacks,      \* the struct callbacks: refs, closures, handlerToCallback,
                    \* sourceToCallback, callbackRefCount
    existence,      \* history: tokens whose count entry SaveCallbackWithClosure created
    last,           \* history: the last index operation and what it found
    phase,          \* symmetry scenario: "save" then "remove"
    saved,          \* symmetry scenario: the ids saved and not yet removed
    touched,        \* symmetry scenario: the tokens a save named
    pc,             \* per thread: where it is in ConnectSignal / DisconnectSignal
    loc,            \* per thread: the locals of the call it is in (kept after return)
    conn,           \* native side: live signal connections, handler id -> slot, closure
    nextHandler,    \* native side: the last handler id handed out
    returned,       \* handler ids ConnectSignal has returned to its caller
    owed,           \* history: per closure, the handler ids ConnectSignal returned for
                    \* it that no DisconnectSignal has been called with since
    slotAllocs,     \* Slot Provider: slots allocated so far (addresses 1..slotAllocs)
    sourceTrampolines,      \* the struct sourceTrampolines: nextID, funcs, sourceToDataID
    sourceTrampolineCb,     \* the shared repeating entry point
    sourceTrampolineOnceCb, \* the shared one-shot entry point
    nextSource,     \* native side: the last source id handed out
    regs,           \* per registration, in lock order: what registerSourceFunc
                    \* returned and how far its caller has come (native add, save)
    invoked,        \* history: per closure, how often it was invoked
    removed,        \* history: closures whose entry a removal purged: whether a
                    \* dispatch was in flight or had run, and the invocations
                    \* made or in flight by then
    missed,         \* history: dispatch ids an entry point looked up and found
                    \* absent, with what it returned
    fnRet,          \* history: what the repeating entry point returned last
    names,          \* the map names: library name -> shared object file names
    pkgConfNames,   \* the map pkgConfNames: library name -> pkg-config package
    calls,          \* history: the SetPackageName and SetSharedLibraries calls made
    env,            \* the process environment, the file system and pkg-config
    got             \* what the last GetPaths call did: the name, panic or the paths

idxVars == <<callbacks, existence, last>>
symVars == <<phase, saved, touched>>
sigVars == <<pc, loc, conn, nextHandler, returned, owed, slotAllocs>>
muxVars == <<sourceTrampolines, sourceTrampolineCb, sourceTrampolineOnceCb,
             nextSource, regs, invoked, removed, missed, fnRet>>
libVars == <<names, pkgConfNames, calls, env, got>>
vars == <<callbacks, existence, last, phase, saved, touched,
          pc, loc, conn, nextHandler, returned, owed, slotAllocs,
          sourceTrampolines, sourceTrampolineCb, sourceTrampolineOnceCb,
          nextSource, regs, invoked, removed, missed, fnRet,
          names, pkgConfNames, calls, env, got>>

\* no value returned: onceFn has no result, fn has not returned yet
noReturn == -1

\* ------------------------------------------------------------- Go maps
EmptyMap == [x \in {} |-> 0]

\* m[k] = v
MapSet(m, k, v) == [x \in (DOMAIN m) \cup {k} |-> IF x = k THEN v ELSE m[x]]

\* delete(m, k)
MapDel(m, k) == [x \in (DOMAIN m) \ {k} |-> m[x]]

\* a sweep that deletes every key
MapDelValue_All(m, t) == EmptyMap

\* for k, v := range m { if v == t { delete(m, k) } }
MapDelValue(m, t) == [x \in {k \in DOMAIN m : m[k] # t} |-> m[x]]

\* ------------------------------------------------------- callback index
\* the embedded sync.RWMutex: w is the thread holding the exclusive lock or 0,
\* r the threads holding the read lock
rwFree == [w |-> 0, r |-> {}]

callbacksInit ==
    [mu |-> rwFree,
     refs |-> EmptyMap, closures |-> EmptyMap, handlerToCallback |-> EmptyMap,
     sourceToCallback |-> EmptyMap, callbackRefCount |-> EmptyMap]

GetCallback_Miss(c, cbPtr) == [refPtr |-> 0, ok |-> FALSE]

\* (refPtr, ok) of GetCallback; refPtr is 0 when the token is absent
GetCallback(c, cbPtr) ==
    IF cbPtr \in DOMAIN c.refs
    THEN [refPtr |-> c.refs[cbPtr], ok |-> TRUE]
    ELSE [refPtr |-> 0, ok |-> FALSE]

SaveCallback(c, cbPtr, refPtr) ==
    [c EXCEPT !.refs = MapSet(@, cbPtr, refPtr)]

\* a save that counts every registration of the token
SaveCallbackWithClosure_Inflate(c, cbPtr, refPtr, closure) ==
    [c EXCEPT !.refs = MapSet(@, cbPtr, refPtr),
              !.closures = MapSet(@, cbPtr, closure),
              !.callbackRefCount =
                  MapSet(@, cbPtr, (IF cbPtr \in DOMAIN @ THEN @[cbPtr] ELSE 0) + 1)]

\* a save that sets the count to 1 whether or not the token has one
SaveCallbackWithClosure_Recount(c, cbPtr, refPtr, closure) ==
    [c EXCEPT !.refs = MapSet(@, cbPtr, refPtr),
              !.closures = MapSet(@, cbPtr, closure),
              !.callbackRefCount = MapSet(@, cbPtr, 1)]

SaveCallbackWithClosure(c, cbPtr, refPtr, closure) ==
    [c EXCEPT !.refs = MapSet(@, cbPtr, refPtr),
              !.closures = MapSet(@, cbPtr, closure),
              !.callbackRefCount =
                  IF cbPtr \in DOMAIN @ THEN @ ELSE MapSet(@, cbPtr, 1)]

\* a removal that drops the token and leaves the mappings that point at it
RemoveCallback_KeepMappings(c, cbPtr) ==
    [c EXCEPT !.refs = MapDel(@, cbPtr),
              !.closures = MapDel(@, cbPtr),
              !.callbackRefCount = MapDel(@, cbPtr)]

RemoveCallback(c, cbPtr) ==
    [c EXCEPT !.handlerToCallback = MapDelValue(@, cbPtr),
              !.sourceToCallback = MapDelValue(@, cbPtr),
              !.refs = MapDel(@, cbPtr),
              !.closures = MapDel(@, cbPtr),
              !.callbackRefCount = MapDel(@, cbPtr)]

\* callbackRefCount[cbPtr]++ ; a missing entry reads as 0
acquireCallbackRef(c, cbPtr) ==
    [c EXCEPT !.callbackRefCount =
        MapSet(@, cbPtr, (IF cbPtr \in DOMAIN @ THEN @[cbPtr] ELSE 0) + 1)]

hasCallbackMappings(c, cbPtr) ==
    \/ \E h \in DOMAIN c.handlerToCallback : c.handlerToCallback[h] = cbPtr
    \/ \E s \in DOMAIN c.sourceToCallback : c.sourceToCallback[s] = cbPtr

\* a release that leaves the closure behind when the count reaches zero
releaseCallbackRef_KeepClosure(c, cbPtr) ==
    IF cbPtr \notin DOMAIN c.callbackRefCount
    THEN c
    ELSE LET count == c.callbackRefCount[cbPtr] - 1
         IN  IF count > 0
             THEN [c EXCEPT !.callbackRefCount = MapSet(@, cbPtr, count)]
             ELSE [c EXCEPT !.callbackRefCount = MapDel(@, cbPtr),
                            !.refs = MapDel(@, cbPtr)]

releaseCallbackRef(c, cbPtr) ==
    IF cbPtr \notin DOMAIN c.callbackRefCount
    THEN c
    ELSE LET count == c.callbackRefCount[cbPtr] - 1
         IN  IF count > 0
             THEN [c EXCEPT !.callbackRefCount = MapSet(@, cbPtr, count)]
             ELSE [c EXCEPT !.callbackRefCount = MapDel(@, cbPtr),
                            !.refs = MapDel(@, cbPtr),
                            !.closures = MapDel(@, cbPtr)]

SaveHandlerMapping_NoRelease(c, handlerID, cbPtr) ==
    IF handlerID = 0 THEN c
    ELSE IF handlerID \in DOMAIN c.handlerToCallback
            /\ c.handlerToCallback[handlerID] = cbPtr
    THEN c
    ELSE acquireCallbackRef(
             [c EXCEPT !.handlerToCallback = MapSet(@, handlerID, cbPtr)], cbPtr)

\* a save that takes a reference on every call
SaveHandlerMapping_Reacquire(c, handlerID, cbPtr) ==
    IF handlerID = 0 THEN c
    ELSE IF handlerID \in DOMAIN c.handlerToCallback
    THEN LET prevCbPtr == c.handlerToCallback[handlerID]
         IN  IF prevCbPtr = cbPtr
             THEN acquireCallbackRef(c, cbPtr)
             ELSE LET c1 == releaseCallbackRef(c, prevCbPtr)
                      c2 == IF ~hasCallbackMappings(c1, prevCbPtr)
                            THEN releaseCallbackRef(c1, prevCbPtr) ELSE c1
                  IN  acquireCallbackRef(
                          [c2 EXCEPT !.handlerToCallback = MapSet(@, handlerID, cbPtr)],
                          cbPtr)
    ELSE acquireCallbackRef(
             [c EXCEPT !.handlerToCallback = MapSet(@, handlerID, cbPtr)], cbPtr)

SaveHandlerMapping(c, handlerID, cbPtr) ==
    IF handlerID = 0 THEN c
    ELSE IF handlerID \in DOMAIN c.handlerToCallback
    THEN LET prevCbPtr == c.handlerToCallback[handlerID]
         IN  IF prevCbPtr = cbPtr
             THEN c
             ELSE LET c1 == releaseCallbackRef(c, prevCbPtr)
                      c2 == IF ~hasCallbackMappings(c1, prevCbPtr)
                            THEN releaseCallbackRef(c1, prevCbPtr) ELSE c1
                  IN  acquireCallbackRef(
                          [c2 EXCEPT !.handlerToCallback = MapSet(@, handlerID, cbPtr)],
                          cbPtr)
    ELSE acquireCallbackRef(
             [c EXCEPT !.handlerToCallback = MapSet(@, handlerID, cbPtr)], cbPtr)

\* the registry before reference counting: drop the closure with the handler
RemoveCallbackByHandler_NoCount(c, handlerID) ==
    IF handlerID \in DOMAIN c.handlerToCallback
    THEN LET cbPtr == c.handlerToCallback[handlerID]
         IN  [c EXCEPT !.handlerToCallback = MapDel(@, handlerID),
                       !.refs = MapDel(@, cbPtr),
                       !.closures = MapDel(@, cbPtr),
                       !.callbackRefCount = MapDel(@, cbPtr)]
    ELSE c

RemoveCallbackByHandler(c, handlerID) ==
    IF handlerID \in DOMAIN c.handlerToCallback
    THEN LET cbPtr == c.handlerToCallback[handlerID]
             c0 == [c EXCEPT !.handlerToCallback = MapDel(@, handlerID)]
             c1 == releaseCallbackRef(c0, cbPtr)
         IN  IF ~hasCallbackMappings(c1, cbPtr)
             THEN releaseCallbackRef(c1, cbPtr) ELSE c1
    ELSE c

\* a save without the guard on the invalid id
SaveSourceMapping_NoZeroCheck(c, sourceID, cbPtr) ==
    IF sourceID \in DOMAIN c.sourceToCallback
    THEN LET prevCbPtr == c.sourceToCallback[sourceID]
         IN  IF prevCbPtr = cbPtr
             THEN c
             ELSE LET c1 == releaseCallbackRef(c, prevCbPtr)
                      c2 == IF ~hasCallbackMappings(c1, prevCbPtr)
                            THEN releaseCallbackRef(c1, prevCbPtr) ELSE c1
                  IN  acquireCallbackRef(
                          [c2 EXCEPT !.sourceToCallback = MapSet(@, sourceID, cbPtr)],
                          cbPtr)
    ELSE acquireCallbackRef(
             [c EXCEPT !.sourceToCallback = MapSet(@, sourceID, cbPtr)], cbPtr)

SaveSourceMapping(c, sourceID, cbPtr) ==
    IF sourceID = 0 THEN c
    ELSE IF sourceID \in DOMAIN c.sourceToCallback
    THEN LET prevCbPtr == c.sourceToCallback[sourceID]
         IN  IF prevCbPtr = cbPtr
             THEN c
             ELSE LET c1 == releaseCallbackRef(c, prevCbPtr)
                      c2 == IF ~hasCallbackMappings(c1, prevCbPtr)
                            THEN releaseCallbackRef(c1, prevCbPtr) ELSE c1
                  IN  acquireCallbackRef(
                          [c2 EXCEPT !.sourceToCallback = MapSet(@, sourceID, cbPtr)],
                          cbPtr)
    ELSE acquireCallbackRef(
             [c EXCEPT !.sourceToCallback = MapSet(@, sourceID, cbPtr)], cbPtr)

\* a removal that answers an unknown source id by resetting the source table
RemoveCallbackBySource_Reset(c, sourceID) ==
    IF sourceID \in DOMAIN c.sourceToCallback
    THEN LET cbPtr == c.sourceToCallback[sourceID]
             c0 == [c EXCEPT !.sourceToCallback = MapDel(@, sourceID)]
             c1 == releaseCallbackRef(c0, cbPtr)
         IN  IF ~hasCallbackMappings(c1, cbPtr)
             THEN releaseCallbackRef(c1, cbPtr) ELSE c1
    ELSE [c EXCEPT !.sourceToCallback = EmptyMap]

RemoveCallbackBySource(c, sourceID) ==
    IF sourceID \in DOMAIN c.sourceToCallback
    THEN LET cbPtr == c.sourceToCallback[sourceID]
             c0 == [c EXCEPT !.sourceToCallback = MapDel(@, sourceID)]
             c1 == releaseCallbackRef(c0, cbPtr)
         IN  IF ~hasCallbackMappings(c1, cbPtr)
             THEN releaseCallbackRef(c1, cbPtr) ELSE c1
    ELSE c

\* ------------------------------------------------------------ histories
\* number of handler ids plus source ids whose value is t
NumMappings(c, t) ==
    Cardinality({h \in DOMAIN c.handlerToCallback : c.handlerToCallback[h] = t})
    + Cardinality({s \in DOMAIN c.sourceToCallback : c.sourceToCallback[s] = t})

Present(c, t) ==
    /\ t \in DOMAIN c.refs
    /\ t \in DOMAIN c.closures
    /\ t \in DOMAIN c.callbackRefCount

Absent(c, t) ==
    /\ t \notin DOMAIN c.refs
    /\ t \notin DOMAIN c.closures
    /\ t \notin DOMAIN c.callbackRefCount

\* the tokens that still carry the registry's own reference after a step to c2
existenceAfter(c2, created) ==
    (existence \cup created) \cap DOMAIN c2.callbackRefCount

lastInit == [op |-> "init", tok |-> 0]

\* the address the Slot Provider gives closure t when the index is driven directly
SlotOf(t) == t

\* ---------------------------------------------- the index, one call a step
IndexInit ==
    /\ callbacks = callbacksInit
    /\ existence = {}
    /\ last = lastInit

\* nothing in the environment: no variable set, no file, pkg-config fails
envNone ==
    [vars |-> EmptyMap, arch |-> "amd64", fs |-> {},
     pkgconf |-> [err |-> TRUE, out |-> <<>>]]

\* GetPaths not called yet
gotNone == [name |-> "", panic |-> FALSE, sos |-> <<>>, probed |-> <<>>]

\* no library registered, GetPaths not called
NamesIdle ==
    /\ names = EmptyMap
    /\ pkgConfNames = EmptyMap
    /\ calls = <<>>
    /\ got = gotNone

LibIdle ==
    /\ NamesIdle
    /\ env = envNone

SymIdle ==
    /\ phase = "off"
    /\ saved = <<>>
    /\ touched = {}

SigIdle ==
    /\ pc = [th \in Threads |-> "off"]
    /\ loc = [th \in Threads |-> 0]
    /\ conn = EmptyMap
    /\ nextHandler = 0
    /\ returned = {}
    /\ owed = [t \in Tokens |-> {}]
    /\ slotAllocs = 0

MuxIdle ==
    /\ sourceTrampolines = 0
    /\ sourceTrampolineCb = 0
    /\ sourceTrampolineOnceCb = 0
    /\ nextSource = 0
    /\ regs = <<>>
    /\ invoked = EmptyMap
    /\ removed = EmptyMap
    /\ missed = {}
    /\ fnRet = noReturn

Init ==
    /\ LibIdle
    /\ IndexInit
    /\ SymIdle
    /\ SigIdle
    /\ MuxIdle

\* apply an index function whose result is c2
IndexStep(c2, created, op, tok) ==
    /\ callbacks' = c2
    /\ existence' = existenceAfter(c2, created)
    /\ last' = [op |-> op, tok |-> tok]

CallGetCallback ==
    \E t \in Tokens :
        /\ IndexStep(callbacks, {}, "GetCallback", t)
        /\ UNCHANGED <<symVars, sigVars, muxVars, libVars>>

CallSaveCallback ==
    \E t \in Tokens :
        /\ IndexStep(SaveCallback(callbacks, t, SlotOf(t)), {}, "SaveCallback", t)
        /\ UNCHANGED <<symVars, sigVars, muxVars, libVars>>

CallSaveCallbackWithClosure ==
    \E t \in Tokens :
        /\ IndexStep(SaveCallbackWithClosure(callbacks, t, SlotOf(t), t),
                     IF t \in DOMAIN callbacks.callbackRefCount THEN {} ELSE {t},
                     "SaveCallbackWithClosure", t)
        /\ UNCHANGED <<symVars, sigVars, muxVars, libVars>>

CallRemoveCallback ==
    \E t \in Tokens :
        /\ IndexStep(RemoveCallback(callbacks, t), {}, "RemoveCallback", t)
        /\ UNCHANGED <<symVars, sigVars, muxVars, libVars>>

CallSaveHandlerMapping ==
    \E h \in HandlerIds, t \in Tokens :
        /\ IndexStep(SaveHandlerMapping(callbacks, h, t), {}, "SaveHandlerMapping", t)
        /\ UNCHANGED <<symVars, sigVars, muxVars, libVars>>

CallRemoveCallbackByHandler ==
    \E h \in HandlerIds :
        /\ IndexStep(RemoveCallbackByHandler(callbacks, h), {},
                     "RemoveCallbackByHandler",
                     IF h \in DOMAIN callbacks.handlerToCallback
                     THEN callbacks.handlerToCallback[h] ELSE 0)
        /\ UNCHANGED <<symVars, sigVars, muxVars, libVars>>

CallSaveSourceMapping ==
    \E s \in SourceIds, t \in Tokens :
        /\ IndexStep(SaveSourceMapping(callbacks, s, t), {}, "SaveSourceMapping", t)
        /\ UNCHANGED <<symVars, sigVars, muxVars, libVars>>

\* a removal by source id that also removes the id from the multiplexer
CallRemoveCallbackBySource_AlsoMux ==
    \E s \in SourceIds :
        /\ IndexStep(RemoveCallbackBySource(callbacks, s), {},
                     "RemoveCallbackBySource",
                     IF s \in DOMAIN callbacks.sourceToCallback
                     THEN callbacks.sourceToCallback[s] ELSE 0)
        /\ sourceTrampolines' =
               [sourceTrampolines EXCEPT
                   !.sourceToDataID = [x \in DOMAIN @ \ {s} |-> @[x]]]
        /\ UNCHANGED <<symVars, sigVars, sourceTrampolineCb,
                       sourceTrampolineOnceCb, nextSource, regs, invoked,
                       removed, missed, fnRet, libVars>>

CallRemoveCallbackBySource ==
    \E s \in SourceIds :
        /\ IndexStep(RemoveCallbackBySource(callbacks, s), {},
                     "RemoveCallbackBySource",
                     IF s \in DOMAIN callbacks.sourceToCallback
                     THEN callbacks.sourceToCallback[s] ELSE 0)
        /\ UNCHANGED <<symVars, sigVars, muxVars, libVars>>

Next ==
    \/ CallGetCallback
    \/ CallSaveCallback
    \/ CallSaveCallbackWithClosure
    \/ CallRemoveCallback
    \/ CallSaveHandlerMapping
    \/ CallRemoveCallbackByHandler
    \/ CallSaveSourceMapping
    \/ CallRemoveCallbackBySource

Spec == Init /\ [][Next]_vars

\* --------------------------------------------- save/remove symmetry scenario
\* the non-zero handler ids and source ids the scenario saves
SaveKeys == ({"h"} \X (1..MaxHandler)) \cup ({"s"} \X (1..MaxSource))

RECURSIVE RegisterAll(_, _)
\* SaveCallbackWithClosure for every closure of S
RegisterAll(c, S) ==
    IF S = {} THEN c
    ELSE LET t == CHOOSE x \in S : TRUE
         IN  RegisterAll(SaveCallbackWithClosure(c, t, SlotOf(t), t), S \ {t})

RECURSIVE SumOver(_, _)
SumOver(f, S) ==
    IF S = {} THEN 0
    ELSE LET k == CHOOSE x \in S : TRUE IN f[k] + SumOver(f, S \ {k})

\* some closures are registered, none is mapped
SymInit ==
    /\ LibIdle
    /\ \E S \in SUBSET Tokens :
        /\ callbacks = RegisterAll(callbacksInit, S)
        /\ existence = S
    /\ last = lastInit
    /\ phase = "save"
    /\ saved = [k \in SaveKeys |-> 0]
    /\ touched = {}
    /\ SigIdle
    /\ MuxIdle

SymSave ==
    /\ phase = "save"
    /\ SumOver(saved, SaveKeys) < MaxOps
    /\ \E k \in SaveKeys, t \in Tokens :
        /\ callbacks' = IF k[1] = "h"
                        THEN SaveHandlerMapping(callbacks, k[2], t)
                        ELSE SaveSourceMapping(callbacks, k[2], t)
        /\ saved' = [saved EXCEPT ![k] = @ + 1]
        /\ touched' = touched \cup {t}
    /\ existence' = existenceAfter(callbacks', {})
    /\ UNCHANGED <<last, phase, sigVars, muxVars, libVars>>

SymSwitch ==
    /\ phase = "save"
    /\ phase' = "remove"
    /\ UNCHANGED <<idxVars, saved, touched, sigVars, muxVars, libVars>>

SymRemove ==
    /\ phase = "remove"
    /\ \E k \in SaveKeys :
        /\ saved[k] > 0
        /\ callbacks' = IF k[1] = "h"
                        THEN RemoveCallbackByHandler(callbacks, k[2])
                        ELSE RemoveCallbackBySource(callbacks, k[2])
        /\ saved' = [saved EXCEPT ![k] = @ - 1]
    /\ existence' = existenceAfter(callbacks', {})
    /\ UNCHANGED <<last, phase, touched, sigVars, muxVars, libVars>>

SymNext ==
    \/ SymSave
    \/ SymSwitch
    \/ SymRemove

SpecSym == SymInit /\ [][SymNext]_vars

\* ------------------------------------------------ signal connection manager
\* Object.ConnectSignal and Object.DisconnectSignal, one step per call they
\* make; the callers are threads, the native signal table is conn.
sigLocInit ==
    [op |-> "none", cb |-> 0, slot |-> 0, hid |-> 0, ok |-> FALSE,
     reg0 |-> FALSE, allocs0 |-> 0]

SigInit ==
    /\ LibIdle
    /\ IndexInit
    /\ SymIdle
    /\ pc = [th \in Threads |-> "idle"]
    /\ loc = [th \in Threads |-> sigLocInit]
    /\ conn = EmptyMap
    /\ nextHandler = 0
    /\ returned = {}
    /\ owed = [t \in Tokens |-> {}]
    /\ slotAllocs = 0
    /\ MuxIdle

\* a step of thread th that leaves the index at c2
SigIndexStep(c2, created) ==
    /\ callbacks' = c2
    /\ existence' = existenceAfter(c2, created)
    /\ UNCHANGED <<last, symVars, muxVars, libVars>>

\* the slots allocated for closures of signals: all but the multiplexer's two
SignalSlots ==
    slotAllocs - Cardinality({sourceTrampolineCb, sourceTrampolineOnceCb} \ {0})

\* cbPtr := uintptr(unsafe.Pointer(cb)); cbRefPtr, ok := glib.GetCallback(cbPtr)
CS_GetCallback(th) ==
    /\ pc[th] = "idle"
    /\ \E cb \in Tokens :
        LET g == GetCallback(callbacks, cb)
        IN  /\ g.ok \/ SignalSlots + Cardinality({t \in Threads : pc[t] = "cs_new"}) < MaxAlloc
            /\ loc' = [loc EXCEPT ![th] =
                   [op |-> "ConnectSignal", cb |-> cb, slot |-> g.refPtr, hid |-> 0,
                    ok |-> g.ok, reg0 |-> cb \in DOMAIN callbacks.refs,
                    allocs0 |-> slotAllocs]]
            /\ pc' = [pc EXCEPT ![th] = IF g.ok THEN "cs_connect" ELSE "cs_new"]
    /\ UNCHANGED <<idxVars, symVars, muxVars, libVars, conn, nextHandler, returned, owed, slotAllocs>>

\* cbRefPtr := glib.NewCallback(cb): the Slot Provider hands out a new address
CS_NewCallback(th) ==
    /\ pc[th] = "cs_new"
    /\ slotAllocs' = slotAllocs + 1
    /\ loc' = [loc EXCEPT ![th].slot = slotAllocs + 1]
    /\ pc' = [pc EXCEPT ![th] = "cs_save"]
    /\ UNCHANGED <<idxVars, symVars, muxVars, libVars, conn, nextHandler, returned, owed>>

\* a ConnectSignal that goes on to the native connect without storing the closure
CS_SaveCallbackWithClosure_Skip(th) ==
    /\ pc[th] = "cs_save"
    /\ pc' = [pc EXCEPT ![th] = "cs_connect"]
    /\ UNCHANGED <<idxVars, symVars, muxVars, libVars, loc, conn, nextHandler, returned, owed,
                   slotAllocs>>

\* glib.SaveCallbackWithClosure(cbPtr, cbRefPtr, cb)
CS_SaveCallbackWithClosure(th) ==
    /\ pc[th] = "cs_save"
    /\ SigIndexStep(SaveCallbackWithClosure(callbacks, loc[th].cb, loc[th].slot, loc[th].cb),
                    IF loc[th].cb \in DOMAIN callbacks.callbackRefCount
                    THEN {} ELSE {loc[th].cb})
    /\ pc' = [pc EXCEPT ![th] = "cs_connect"]
    /\ UNCHANGED <<loc, conn, nextHandler, returned, owed, slotAllocs>>

\* handlerID := SignalConnect(o.GoPointer(), signal, cbRefPtr): the native side
\* returns the next handler id, or 0 when it cannot connect
CS_SignalConnect(th) ==
    /\ pc[th] = "cs_connect"
    /\ \E hid \in {0} \cup (IF nextHandler < MaxNativeHandler
                            THEN {nextHandler + 1} ELSE {}) :
        /\ conn' = IF hid = 0 THEN conn
                   ELSE MapSet(conn, hid, [slot |-> loc[th].slot, tok |-> loc[th].cb])
        /\ nextHandler' = IF hid = 0 THEN nextHandler ELSE hid
        /\ loc' = [loc EXCEPT ![th].hid = hid]
    /\ pc' = [pc EXCEPT ![th] = "cs_map"]
    /\ UNCHANGED <<idxVars, symVars, muxVars, libVars, returned, owed, slotAllocs>>

\* glib.SaveHandlerMapping(handlerID, cbPtr); return handlerID
CS_SaveHandlerMapping(th) ==
    /\ pc[th] = "cs_map"
    /\ SigIndexStep(SaveHandlerMapping(callbacks, loc[th].hid, loc[th].cb), {})
    /\ returned' = returned \cup {loc[th].hid}
    /\ owed' = [owed EXCEPT ![loc[th].cb] = @ \cup {loc[th].hid}]
    /\ pc' = [pc EXCEPT ![th] = "idle"]
    /\ UNCHANGED <<loc, conn, nextHandler, slotAllocs>>

\* SignalHandlerDisconnect(&o, handler), for a handler id a ConnectSignal returned
DS_SignalHandlerDisconnect(th) ==
    /\ pc[th] = "idle"
    /\ \E h \in returned :
        /\ conn' = MapDel(conn, h)
        /\ loc' = [loc EXCEPT ![th] =
               [sigLocInit EXCEPT !.op = "DisconnectSignal", !.hid = h]]
    /\ pc' = [pc EXCEPT ![th] = "ds_remove"]
    /\ UNCHANGED <<idxVars, symVars, muxVars, libVars, nextHandler, returned, owed, slotAllocs>>

\* glib.RemoveCallbackByHandler(handler)
DS_RemoveCallbackByHandler(th) ==
    /\ pc[th] = "ds_remove"
    /\ SigIndexStep(RemoveCallbackByHandler(callbacks, loc[th].hid), {})
    /\ owed' = [t \in Tokens |-> owed[t] \ {loc[th].hid}]
    /\ pc' = [pc EXCEPT ![th] = "idle"]
    /\ UNCHANGED <<loc, conn, nextHandler, returned, slotAllocs>>

SigStep(th) ==
    \/ CS_GetCallback(th)
    \/ CS_NewCallback(th)
    \/ CS_SaveCallbackWithClosure(th)
    \/ CS_SignalConnect(th)
    \/ CS_SaveHandlerMapping(th)
    \/ DS_SignalHandlerDisconnect(th)
    \/ DS_RemoveCallbackByHandler(th)

SigNext == \E th \in Threads : SigStep(th)

\* callers on any thread
SpecSig == SigInit /\ [][SigNext]_vars

SigSeqNext == SigStep(1)

\* one caller: every call returns before the next begins
SpecSigSeq == SigInit /\ [][SigSeqNext]_vars

\* --------------------------------------------- source trampoline multiplexer
\* uintptr arithmetic: nextID is a machine word
Word == 2 ^ WordBits

\* a nil *SourceFunc; closures are [clo |-> identity, wrapped |-> made by
\* registerSourceOnceFunc]
NilFn == [clo |-> -1, wrapped |-> FALSE]

\* the struct sourceTrampolines; mu is the embedded sync.Mutex: the thread
\* holding it, or 0
sourceTrampolinesInit ==
    [mu |-> 0, nextID |-> 0, funcs |-> EmptyMap, sourceToDataID |-> EmptyMap]

\* sourceTrampolines.Lock() by thread th, possible while nobody holds it
muLock(st, th) == [st EXCEPT !.mu = th]

muUnlock_Hold(st) == st

\* sourceTrampolines.Unlock()
muUnlock(st) == [st EXCEPT !.mu = 0]

\* the two purego.NewCallback calls of initSourceTrampoline, run by init()
initSourceTrampoline(slots) ==
    [cb |-> slots + 1, onceCb |-> slots + 2, slots |-> slots + 2]

registerSourceFunc_SameEntry(st, fn, once) ==
    IF fn = NilFn
    THEN [st |-> st, trampolineCb |-> 0, userData |-> 0]
    ELSE LET id == (st.nextID + 1) % Word
         IN  [st |-> [st EXCEPT !.nextID = id,
                                !.funcs = MapSet(@, id, [fn |-> fn, once |-> once])],
              trampolineCb |-> sourceTrampolineCb,
              userData |-> id]

registerSourceFunc(st, fn, once) ==
    IF fn = NilFn
    THEN [st |-> st, trampolineCb |-> 0, userData |-> 0]
    ELSE LET id == (st.nextID + 1) % Word
         IN  [st |-> [st EXCEPT !.nextID = id,
                                !.funcs = MapSet(@, id, [fn |-> fn, once |-> once])],
              trampolineCb |-> IF once THEN sourceTrampolineOnceCb
                               ELSE sourceTrampolineCb,
              userData |-> id]

\* an adapter that registers the wrapped closure as a repeating source
registerSourceOnceFunc_Repeating(st, fn) ==
    IF fn = NilFn
    THEN [st |-> st, trampolineCb |-> 0, userData |-> 0]
    ELSE registerSourceFunc(st, [clo |-> fn.clo, wrapped |-> TRUE], FALSE)

registerSourceOnceFunc(st, fn) ==
    IF fn = NilFn
    THEN [st |-> st, trampolineCb |-> 0, userData |-> 0]
    ELSE registerSourceFunc(st, [clo |-> fn.clo, wrapped |-> TRUE], TRUE)

saveSourceTrampolineMapping(st, sourceID, dataID) ==
    IF sourceID = 0 THEN st
    ELSE [st EXCEPT !.sourceToDataID = MapSet(@, sourceID, dataID)]

removeSourceTrampolineBySourceID_KeepFunc(st, sourceID) ==
    IF sourceID \in DOMAIN st.sourceToDataID
    THEN [st EXCEPT !.sourceToDataID = MapDel(@, sourceID)]
    ELSE st

removeSourceTrampolineBySourceID_WrongKey(st, sourceID) ==
    IF sourceID \in DOMAIN st.sourceToDataID
    THEN [st EXCEPT !.sourceToDataID = MapDel(@, sourceID),
                    !.funcs = MapDel(@, sourceID)]
    ELSE st

removeSourceTrampolineBySourceID(st, sourceID) ==
    IF sourceID \in DOMAIN st.sourceToDataID
    THEN [st EXCEPT !.sourceToDataID = MapDel(@, sourceID),
                    !.funcs = MapDel(@, st.sourceToDataID[sourceID])]
    ELSE st

\* for sid, did := range sourceToDataID { if did == id { delete; break } }:
\* the map is ranged over in no fixed order, one matching key is deleted
reverseCleanup(st, id) ==
    LET hits == {sid \in DOMAIN st.sourceToDataID : st.sourceToDataID[sid] = id}
    IN  IF hits = {} THEN {st}
        ELSE {[st EXCEPT !.sourceToDataID = MapDel(@, sid)] : sid \in hits}

\* fn and onceFn: entry, ok := funcs[id]; cb := entry.fn
fnLookup(st, id) ==
    IF id \in DOMAIN st.funcs
    THEN [ok |-> TRUE, cb |-> st.funcs[id].fn]
    ELSE [ok |-> FALSE, cb |-> NilFn]

\* fn: if result { return 1 }; return 0
fnReturn(result) == IF result THEN 1 ELSE 0

\* a miss that reports continue
fnAbsent_Continue == fnReturn(TRUE)

\* fn, if !ok: return 0 (SOURCE_REMOVE)
fnAbsent == 0

\* onceFn, if !ok: return, without a value
onceFnAbsent == noReturn

fnCleanup_KeepReverse(st, id) == {[st EXCEPT !.funcs = MapDel(@, id)]}

\* fn, after the closure reported stop: delete the entry and its reverse mapping
fnCleanup(st, id) ==
    reverseCleanup([st EXCEPT !.funcs = MapDel(@, id)], id)

onceFnTake_Keep(st, id) == {st}

\* onceFn, in the critical section of its lookup: delete the entry and its
\* reverse mapping
onceFnTake(st, id) ==
    reverseCleanup([st EXCEPT !.funcs = MapDel(@, id)], id)

\* what a closure reports when invoked: a wrapped SourceOnceFunc always stops
closureResults(cb) == IF cb.wrapped THEN {FALSE} ELSE BOOLEAN

muxLocInit == [id |-> 0, cb |-> NilFn, late |-> FALSE]

\* native side: the (entry point, user data) pairs the scheduler was given
Added ==
    {[entry |-> regs[i].entry, id |-> regs[i].id] :
        i \in {k \in 1..Len(regs) : regs[k].stage # "registered" /\ regs[k].sid # 0}}

\* source ids the native add has returned to a caller that has saved its mapping
ReturnedSids ==
    {regs[i].sid : i \in {k \in 1..Len(regs) : regs[k].stage = "saved" /\ regs[k].sid # 0}}

\* how many dispatches have looked closure clo up and not yet invoked it
InFlight(clo) ==
    Cardinality({th \in Threads : pc[th] \in {"fn_call", "once_call"}
                                  /\ loc[th].cb.clo = clo})

MuxCommonInit ==
    /\ LibIdle
    /\ IndexInit
    /\ SymIdle
    /\ pc = [th \in Threads |-> "idle"]
    /\ loc = [th \in Threads |-> muxLocInit]
    /\ conn = EmptyMap
    /\ nextHandler = 0
    /\ returned = {}
    /\ owed = [t \in Tokens |-> {}]
    /\ LET i == initSourceTrampoline(0)
       IN  /\ sourceTrampolineCb = i.cb
           /\ sourceTrampolineOnceCb = i.onceCb
           /\ slotAllocs = i.slots
    /\ removed = EmptyMap
    /\ missed = {}
    /\ fnRet = noReturn

\* the process after init()
MuxInit ==
    /\ MuxCommonInit
    /\ sourceTrampolines = sourceTrampolinesInit
    /\ nextSource = 0
    /\ regs = <<>>
    /\ invoked = EmptyMap

\* a process that has registered Word - 1 sources so far; the first of them, a
\* repeating source, is still outstanding under dispatch id 1 and source id 1
MuxWrapInit ==
    /\ MuxCommonInit
    /\ sourceTrampolines =
           [mu |-> 0, nextID |-> Word - 1,
            funcs |-> MapSet(EmptyMap, 1,
                             [fn |-> [clo |-> 1, wrapped |-> FALSE], once |-> FALSE]),
            sourceToDataID |-> MapSet(EmptyMap, 1, 1)]
    /\ nextSource = 1
    /\ regs = <<[clo |-> 1, id |-> 1, once |-> FALSE, entry |-> sourceTrampolineCb,
                 reused |-> FALSE, stage |-> "saved", sid |-> 1, prior |-> TRUE]>>
    /\ invoked = MapSet(EmptyMap, 1, 0)

MuxFrame == UNCHANGED <<idxVars, symVars, conn, nextHandler, returned, owed, slotAllocs,
                        sourceTrampolineCb, sourceTrampolineOnceCb, libVars>>

\* registerSourceFunc(&fn, false), registerSourceFunc(&fn, true) or
\* registerSourceOnceFunc(&fn) with a fresh closure, on any thread
M_Register ==
    /\ Cardinality({i \in 1..Len(regs) : ~regs[i].prior}) < MaxReg
    /\ \E kind \in {"repeat", "once", "oncefunc"} :
        LET clo == Len(regs) + 1
            fn == [clo |-> clo, wrapped |-> FALSE]
            r == IF kind = "oncefunc"
                 THEN registerSourceOnceFunc(sourceTrampolines, fn)
                 ELSE registerSourceFunc(sourceTrampolines, fn, kind = "once")
        IN  /\ sourceTrampolines' = r.st
            /\ regs' = Append(regs,
                   [clo |-> clo, id |-> r.userData, once |-> kind # "repeat",
                    entry |-> r.trampolineCb,
                    reused |-> r.userData \in DOMAIN sourceTrampolines.funcs,
                    stage |-> "registered", sid |-> 0, prior |-> FALSE])
            /\ invoked' = MapSet(invoked, clo, 0)
    /\ UNCHANGED <<pc, loc, nextSource, removed, missed, fnRet>>
    /\ MuxFrame

\* the caller's native add (g_idle_add_full, g_timeout_add_full, ...) with the
\* entry point and the dispatch id as user data: the next source id, or 0
M_NativeAdd ==
    /\ \E i \in 1..Len(regs) :
        /\ regs[i].stage = "registered"
        /\ \E sid \in {0} \cup (IF nextSource < MaxNativeSource
                                THEN {nextSource + 1} ELSE {}) :
            /\ nextSource' = IF sid = 0 THEN nextSource ELSE sid
            /\ regs' = [regs EXCEPT ![i].stage = "added", ![i].sid = sid]
    /\ UNCHANGED <<pc, loc, sourceTrampolines, invoked, removed, missed, fnRet>>
    /\ MuxFrame

\* the caller's saveSourceTrampolineMapping(sourceID, dataID)
M_SaveMapping ==
    /\ \E i \in 1..Len(regs) :
        /\ regs[i].stage = "added"
        /\ sourceTrampolines' =
               saveSourceTrampolineMapping(sourceTrampolines, regs[i].sid, regs[i].id)
        /\ regs' = [regs EXCEPT ![i].stage = "saved"]
    /\ UNCHANGED <<pc, loc, nextSource, invoked, removed, missed, fnRet>>
    /\ MuxFrame

\* removeSourceTrampolineBySourceID(sourceID), on any thread
M_Remove ==
    /\ \E sid \in ReturnedSids \cup {0} :
        LET st == sourceTrampolines
            hit == sid \in DOMAIN st.sourceToDataID
                   /\ st.sourceToDataID[sid] \in DOMAIN st.funcs
            clo == st.funcs[st.sourceToDataID[sid]].fn.clo
        IN  /\ sourceTrampolines' = removeSourceTrampolineBySourceID(st, sid)
            /\ removed' =
                   IF hit
                   THEN MapSet(removed, clo,
                               [when |-> IF InFlight(clo) > 0 THEN "inflight"
                                         ELSE IF invoked[clo] = 0 THEN "early"
                                         ELSE "after",
                                total |-> invoked[clo] + InFlight(clo)])
                   ELSE removed
    /\ UNCHANGED <<pc, loc, nextSource, regs, invoked, missed, fnRet>>
    /\ MuxFrame

\* the native side calls the repeating entry point: fn up to the closure call
M_FnLookup(th) ==
    /\ pc[th] = "idle"
    /\ \E a \in Added :
        /\ a.entry = sourceTrampolineCb
        /\ LET l == fnLookup(sourceTrampolines, a.id)
           IN  IF l.ok
               THEN /\ invoked[l.cb.clo] + InFlight(l.cb.clo) < MaxInvoke
                    /\ loc' = [loc EXCEPT ![th] =
                           [id |-> a.id, cb |-> l.cb,
                            late |-> l.cb.clo \in DOMAIN removed]]
                    /\ pc' = [pc EXCEPT ![th] = "fn_call"]
                    /\ UNCHANGED <<missed, fnRet>>
               ELSE /\ missed' = missed \cup {[id |-> a.id, ret |-> fnAbsent]}
                    /\ fnRet' = fnAbsent
                    /\ UNCHANGED <<pc, loc>>
    /\ UNCHANGED <<sourceTrampolines, nextSource, regs, invoked, removed>>
    /\ MuxFrame

\* result := cb(0), with the lock released; continue returns 1
M_FnCall(th) ==
    /\ pc[th] = "fn_call"
    /\ \E result \in closureResults(loc[th].cb) :
        IF result
        THEN /\ pc' = [pc EXCEPT ![th] = "idle"]
             /\ loc' = [loc EXCEPT ![th] = muxLocInit]
             /\ fnRet' = fnReturn(result)
        ELSE /\ pc' = [pc EXCEPT ![th] = "fn_cleanup"]
             /\ UNCHANGED <<loc, fnRet>>
    /\ invoked' = [invoked EXCEPT ![loc[th].cb.clo] = @ + 1]
    /\ UNCHANGED <<sourceTrampolines, nextSource, regs, removed, missed>>
    /\ MuxFrame

\* if !result: second critical section, then return 0
M_FnCleanup(th) ==
    /\ pc[th] = "fn_cleanup"
    /\ sourceTrampolines' \in fnCleanup(sourceTrampolines, loc[th].id)
    /\ pc' = [pc EXCEPT ![th] = "idle"]
    /\ loc' = [loc EXCEPT ![th] = muxLocInit]
    /\ fnRet' = fnReturn(FALSE)
    /\ UNCHANGED <<nextSource, regs, invoked, removed, missed>>
    /\ MuxFrame

\* the native side calls the one-shot entry point: onceFn up to the closure call
M_OnceLookup(th) ==
    /\ pc[th] = "idle"
    /\ \E a \in Added :
        /\ a.entry = sourceTrampolineOnceCb
        /\ LET l == fnLookup(sourceTrampolines, a.id)
           IN  IF l.ok
               THEN /\ invoked[l.cb.clo] + InFlight(l.cb.clo) < MaxInvoke
                    /\ sourceTrampolines' \in onceFnTake(sourceTrampolines, a.id)
                    /\ loc' = [loc EXCEPT ![th] =
                           [id |-> a.id, cb |-> l.cb,
                            late |-> l.cb.clo \in DOMAIN removed]]
                    /\ pc' = [pc EXCEPT ![th] = "once_call"]
                    /\ UNCHANGED missed
               ELSE /\ missed' = missed \cup {[id |-> a.id, ret |-> onceFnAbsent]}
                    /\ UNCHANGED <<pc, loc, sourceTrampolines>>
    /\ UNCHANGED <<nextSource, regs, invoked, removed, fnRet>>
    /\ MuxFrame

\* cb(0), with the lock released
M_OnceCall(th) ==
    /\ pc[th] = "once_call"
    /\ pc' = [pc EXCEPT ![th] = "idle"]
    /\ loc' = [loc EXCEPT ![th] = muxLocInit]
    /\ invoked' = [invoked EXCEPT ![loc[th].cb.clo] = @ + 1]
    /\ UNCHANGED <<sourceTrampolines, nextSource, regs, removed, missed, fnRet>>
    /\ MuxFrame

MuxNext ==
    \/ M_Register
    \/ M_NativeAdd
    \/ M_SaveMapping
    \/ M_Remove
    \/ \E th \in Threads : M_FnLookup(th)
    \/ \E th \in Threads : M_FnCall(th)
    \/ \E th \in Threads : M_FnCleanup(th)
    \/ \E th \in Threads : M_OnceLookup(th)
    \/ \E th \in Threads : M_OnceCall(th)

\* registrations, dispatches and removals from any thread
SpecMux == MuxInit /\ [][MuxNext]_vars

\* the same, started shortly before nextID wraps
SpecMuxWrap == MuxWrapInit /\ [][MuxNext]_vars

\* ------------------------------------------- the multiplexer's lock, step by step
\* the dispatch of SpecMux with Lock and Unlock as steps of their own; a
\* registration, mapping or removal, made by any thread or by a closure that
\* is being dispatched, takes the lock for one critical section

\* registerSourceFunc, saveSourceTrampolineMapping and
\* removeSourceTrampolineBySourceID: Lock, the critical section, Unlock
L_Op ==
    /\ sourceTrampolines.mu = 0
    /\ \/ M_Register
       \/ M_SaveMapping
       \/ M_Remove

\* the user data an entry point is called with: the dispatch ids given to the
\* native side together with it
UserData(entry) == {a.id : a \in {b \in Added : b.entry = entry}}

\* fn: sourceTrampolines.Lock()
L_FnLock(th) ==
    /\ pc[th] = "idle"
    /\ sourceTrampolines.mu = 0
    /\ \E id \in UserData(sourceTrampolineCb) :
        /\ LET l == fnLookup(sourceTrampolines, id)
           IN  l.ok => invoked[l.cb.clo] + InFlight(l.cb.clo) < MaxInvoke
        /\ loc' = [loc EXCEPT ![th] = [id |-> id, cb |-> NilFn, late |-> FALSE]]
    /\ sourceTrampolines' = muLock(sourceTrampolines, th)
    /\ pc' = [pc EXCEPT ![th] = "fn_locked"]
    /\ UNCHANGED <<nextSource, regs, invoked, removed, missed, fnRet>>
    /\ MuxFrame

\* fn: entry, ok := funcs[id]; if !ok { Unlock; return 0 }; cb := entry.fn; Unlock
L_FnLookup(th) ==
    /\ pc[th] = "fn_locked"
    /\ LET l == fnLookup(sourceTrampolines, loc[th].id)
       IN  IF l.ok
           THEN /\ loc' = [loc EXCEPT ![th] =
                       [id |-> loc[th].id, cb |-> l.cb,
                        late |-> l.cb.clo \in DOMAIN removed]]
                /\ pc' = [pc EXCEPT ![th] = "fn_call"]
                /\ UNCHANGED <<missed, fnRet>>
           ELSE /\ missed' = missed \cup {[id |-> loc[th].id, ret |-> fnAbsent]}
                /\ fnRet' = fnAbsent
                /\ loc' = [loc EXCEPT ![th] = muxLocInit]
                /\ pc' = [pc EXCEPT ![th] = "idle"]
    /\ sourceTrampolines' = muUnlock(sourceTrampolines)
    /\ UNCHANGED <<nextSource, regs, invoked, removed>>
    /\ MuxFrame

\* fn, if !result: sourceTrampolines.Lock()
L_FnCleanupLock(th) ==
    /\ pc[th] = "fn_cleanup"
    /\ sourceTrampolines.mu = 0
    /\ sourceTrampolines' = muLock(sourceTrampolines, th)
    /\ pc' = [pc EXCEPT ![th] = "fn_cleanup_locked"]
    /\ UNCHANGED <<loc, nextSource, regs, invoked, removed, missed, fnRet>>
    /\ MuxFrame

\* fn, if !result: the deletes, Unlock, return 0
L_FnCleanup(th) ==
    /\ pc[th] = "fn_cleanup_locked"
    /\ sourceTrampolines' \in
           {muUnlock(st) : st \in fnCleanup(sourceTrampolines, loc[th].id)}
    /\ pc' = [pc EXCEPT ![th] = "idle"]
    /\ loc' = [loc EXCEPT ![th] = muxLocInit]
    /\ fnRet' = fnReturn(FALSE)
    /\ UNCHANGED <<nextSource, regs, invoked, removed, missed>>
    /\ MuxFrame

\* onceFn: sourceTrampolines.Lock()
L_OnceLock(th) ==
    /\ pc[th] = "idle"
    /\ sourceTrampolines.mu = 0
    /\ \E id \in UserData(sourceTrampolineOnceCb) :
        /\ LET l == fnLookup(sourceTrampolines, id)
           IN  l.ok => invoked[l.cb.clo] + InFlight(l.cb.clo) < MaxInvoke
        /\ loc' = [loc EXCEPT ![th] = [id |-> id, cb |-> NilFn, late |-> FALSE]]
    /\ sourceTrampolines' = muLock(sourceTrampolines, th)
    /\ pc' = [pc EXCEPT ![th] = "once_locked"]
    /\ UNCHANGED <<nextSource, regs, invoked, removed, missed, fnRet>>
    /\ MuxFrame

\* onceFn: entry, ok := funcs[id]; if !ok { Unlock; return }; the deletes; Unlock
L_OnceLookup(th) ==
    /\ pc[th] = "once_locked"
    /\ LET l == fnLookup(sourceTrampolines, loc[th].id)
       IN  IF l.ok
           THEN /\ sourceTrampolines' \in
                       {muUnlock(st) : st \in onceFnTake(sourceTrampolines, loc[th].id)}
                /\ loc' = [loc EXCEPT ![th] =
                       [id |-> loc[th].id, cb |-> l.cb,
                        late |-> l.cb.clo \in DOMAIN removed]]
                /\ pc' = [pc EXCEPT ![th] = "once_call"]
                /\ UNCHANGED missed
           ELSE /\ sourceTrampolines' = muUnlock(sourceTrampolines)
                /\ missed' = missed \cup {[id |-> loc[th].id, ret |-> onceFnAbsent]}
                /\ loc' = [loc EXCEPT ![th] = muxLocInit]
                /\ pc' = [pc EXCEPT ![th] = "idle"]
    /\ UNCHANGED <<nextSource, regs, invoked, removed, fnRet>>
    /\ MuxFrame

\* one step of the dispatch running on thread th
L_Dispatch(th) ==
    \/ L_FnLookup(th)
    \/ M_FnCall(th)
    \/ L_FnCleanupLock(th)
    \/ L_FnCleanup(th)
    \/ L_OnceLookup(th)
    \/ M_OnceCall(th)

LockNext ==
    \/ L_Op
    \/ M_NativeAdd
    \/ \E th \in Threads : L_FnLock(th)
    \/ \E th \in Threads : L_OnceLock(th)
    \/ \E th \in Threads : L_Dispatch(th)

\* a dispatch that has begun keeps running, its closure returns, and a thread
\* waiting for the mutex gets it once it is free often enough
SpecLock ==
    /\ MuxInit
    /\ [][LockNext]_vars
    /\ \A th \in Threads : SF_vars(L_Dispatch(th))

\* ------------------------------------------------ one caller, whole calls
\* one caller using the index and the signal manager, or the multiplexer's
\* registration and removal; every call returns before the next
CallerInit ==
    /\ LibIdle
    /\ IndexInit
    /\ SymIdle
    /\ pc = [th \in Threads |-> "idle"]
    /\ loc = [th \in Threads |-> sigLocInit]
    /\ conn = EmptyMap
    /\ nextHandler = 0
    /\ returned = {}
    /\ owed = [t \in Tokens |-> {}]
    /\ LET i == initSourceTrampoline(0)
       IN  /\ sourceTrampolineCb = i.cb
           /\ sourceTrampolineOnceCb = i.onceCb
           /\ slotAllocs = i.slots
    /\ sourceTrampolines = sourceTrampolinesInit
    /\ nextSource = 0
    /\ regs = <<>>
    /\ invoked = EmptyMap
    /\ removed = EmptyMap
    /\ missed = {}
    /\ fnRet = noReturn

\* Object.ConnectSignal(signal, cb), from its first line to its return
R_ConnectSignal ==
    \E cb \in Tokens :
        LET g == GetCallback(callbacks, cb)
            cbRefPtr == IF g.ok THEN g.refPtr ELSE slotAllocs + 1
            c1 == IF g.ok THEN callbacks
                  ELSE SaveCallbackWithClosure(callbacks, cb, cbRefPtr, cb)
        IN  /\ g.ok \/ SignalSlots < MaxAlloc
            /\ slotAllocs' = IF g.ok THEN slotAllocs ELSE slotAllocs + 1
            /\ \E handlerID \in {0} \cup (IF nextHandler < MaxNativeHandler
                                          THEN {nextHandler + 1} ELSE {}) :
                /\ conn' = IF handlerID = 0 THEN conn
                           ELSE MapSet(conn, handlerID, [slot |-> cbRefPtr, tok |-> cb])
                /\ nextHandler' = IF handlerID = 0 THEN nextHandler ELSE handlerID
                /\ returned' = returned \cup {handlerID}
                /\ owed' = [owed EXCEPT ![cb] = @ \cup {handlerID}]
                /\ IndexStep(SaveHandlerMapping(c1, handlerID, cb),
                             IF cb \in DOMAIN callbacks.callbackRefCount THEN {} ELSE {cb},
                             "ConnectSignal", cb)
    /\ UNCHANGED <<symVars, pc, loc, muxVars, libVars>>

\* Object.DisconnectSignal(handler), for a handler id a ConnectSignal returned
R_DisconnectSignal ==
    \E h \in returned :
        /\ conn' = MapDel(conn, h)
        /\ owed' = [t \in Tokens |-> owed[t] \ {h}]
        /\ IndexStep(RemoveCallbackByHandler(callbacks, h), {}, "DisconnectSignal",
                     IF h \in DOMAIN callbacks.handlerToCallback
                     THEN callbacks.handlerToCallback[h] ELSE 0)
    /\ UNCHANGED <<symVars, pc, loc, nextHandler, returned, slotAllocs, muxVars, libVars>>

\* the caller stays with one subsystem: the index and the signal manager
\* while nothing was registered with the multiplexer, the multiplexer while
\* no index or signal call was made
CallerNext ==
    \/ /\ regs = <<>>
       /\ \/ CallRemoveCallback
          \/ CallRemoveCallbackByHandler
          \/ CallSaveSourceMapping
          \/ CallRemoveCallbackBySource
          \/ R_ConnectSignal
          \/ R_DisconnectSignal
    \/ /\ last = lastInit
       /\ \/ M_Register
          \/ M_NativeAdd
          \/ M_SaveMapping
          \/ M_Remove

SpecCaller == CallerInit /\ [][CallerNext]_vars

\* --------------------------------------------------------- nil registrations
\* NewCallback(fnPtr): the Slot Provider is asked for one more slot
NewCallback(slots) == [refPtr |-> slots + 1, slots |-> slots + 1]

NewCallbackNullable_Always(slots, fn) == NewCallback(slots)

\* NewCallbackNullable(fn): if val.IsNil() { return 0 }; return NewCallback(fn)
NewCallbackNullable(slots, fn) ==
    IF fn = NilFn THEN [refPtr |-> 0, slots |-> slots] ELSE NewCallback(slots)

\* registerSourceFunc(nil, once) or registerSourceOnceFunc(nil)
N_RegisterNil ==
    /\ \E kind \in {"repeat", "once", "oncefunc"} :
        LET r == IF kind = "oncefunc"
                 THEN registerSourceOnceFunc(sourceTrampolines, NilFn)
                 ELSE registerSourceFunc(sourceTrampolines, NilFn, kind = "once")
        IN  /\ sourceTrampolines' = r.st
            /\ last' = [op |-> "registerNil", tok |-> r.userData + r.trampolineCb]
    /\ UNCHANGED <<callbacks, existence, symVars, sigVars, sourceTrampolineCb,
                   sourceTrampolineOnceCb, nextSource, regs, invoked, removed,
                   missed, fnRet, libVars>>

\* NewCallbackNullable(fn) with a nil or a non-nil function
N_NewCallbackNullable ==
    /\ \E fn \in {NilFn, [clo |-> 1, wrapped |-> FALSE]} :
        LET r == NewCallbackNullable(slotAllocs, fn)
        IN  /\ fn # NilFn => SignalSlots < MaxAlloc
            /\ slotAllocs' = r.slots
            /\ last' = [op |-> "NewCallbackNullable", tok |-> r.refPtr]
    /\ UNCHANGED <<callbacks, existence, symVars, pc, loc, conn, nextHandler,
                   returned, owed, muxVars, libVars>>

NilNext ==
    \/ M_Register
    \/ M_NativeAdd
    \/ M_SaveMapping
    \/ N_RegisterNil
    \/ N_NewCallbackNullable

\* registrations with and without a function, one caller
SpecNil == CallerInit /\ [][NilNext]_vars

\* ------------------------------------------------- library name registration
\* library names, pkg-config package names and lists of shared object file
\* names a caller may pass
LibNames == {"GTK", "GLIB"}
PkgNames == {"", "gtk4", "gtk4-unix-print"}
SharedLibs == {<<>>, <<"libgtk-4.so">>, <<"libgtk-4.so", "libgio-2.0.so">>}

\* a SetPackageName that lets the latest call win
SetPackageName_Override(m, libName, pkgName) ==
    IF pkgName # "" THEN MapSet(m, libName, pkgName) ELSE m

\* if _, exists := pkgConfNames[libName]; !exists && pkgName != ""
SetPackageName(m, libName, pkgName) ==
    IF libName \notin DOMAIN m /\ pkgName # ""
    THEN MapSet(m, libName, pkgName) ELSE m

\* if _, exists := names[libName]; !exists && len(sharedLibs) > 0
SetSharedLibraries(m, libName, sharedLibs) ==
    IF libName \notin DOMAIN m /\ Len(sharedLibs) > 0
    THEN MapSet(m, libName, sharedLibs) ELSE m

CallSetPackageName ==
    /\ Len(calls) < MaxLibCalls
    /\ \E libName \in LibNames, pkgName \in PkgNames :
        /\ pkgConfNames' = SetPackageName(pkgConfNames, libName, pkgName)
        /\ calls' = Append(calls, [fn |-> "SetPackageName", lib |-> libName,
                                   pkg |-> pkgName, libs |-> <<>>])
    /\ UNCHANGED <<idxVars, symVars, sigVars, muxVars, names, env, got>>

CallSetSharedLibraries ==
    /\ Len(calls) < MaxLibCalls
    /\ \E libName \in LibNames, sharedLibs \in SharedLibs :
        /\ names' = SetSharedLibraries(names, libName, sharedLibs)
        /\ calls' = Append(calls, [fn |-> "SetSharedLibraries", lib |-> libName,
                                   pkg |-> "", libs |-> sharedLibs])
    /\ UNCHANGED <<idxVars, symVars, sigVars, muxVars, pkgConfNames, env, got>>

LibNamesNext ==
    \/ CallSetPackageName
    \/ CallSetSharedLibraries

\* any sequence of registrations, as the generated packages make them
SpecLibNames == Init /\ [][LibNamesNext]_vars

\* ------------------------------------------------------ library lookup
\* suffixes := []string{"", ".0", ".1", ".2"}
suffixes == <<"", ".0", ".1", ".2">>

\* var paths = map[string][]string{...}
paths ==
    [amd64 |-> <<"/app/lib/", "/usr/lib/x86_64-linux-gnu/", "/usr/lib64/",
                 "/usr/lib/">>,
     arm64 |-> <<"/app/lib/", "/usr/lib/aarch64-linux-gnu/", "/usr/lib64/",
                 "/usr/lib/">>]

\* filepath.Join(path, n); on the directories that occur filepath.Clean drops
\* the trailing slash
Join(path, n) ==
    LET clean ==
            CASE path = "/app/lib/" -> "/app/lib"
              [] path = "/usr/lib/x86_64-linux-gnu/" -> "/usr/lib/x86_64-linux-gnu"
              [] path = "/usr/lib/aarch64-linux-gnu/" -> "/usr/lib/aarch64-linux-gnu"
              [] path = "/usr/lib64/" -> "/usr/lib64"
              [] path = "/usr/lib/" -> "/usr/lib"
              [] OTHER -> path
    IN  IF path = "" THEN n ELSE clean \o "/" \o n

\* os.Getenv(key)
Getenv(e, key) == IF key \in DOMAIN e.vars THEN e.vars[key] ELSE ""

\* findSos: for every file name of the library, in order, every suffix, in
\* order, that os.Stat finds under path
findSos(fs, nm, path, name) ==
    LET ns == IF name \in DOMAIN nm THEN nm[name] ELSE <<>>
        nsfx == Len(suffixes)
        cand == [k \in 1..(Len(ns) * nsfx) |->
                    Join(path, ns[((k - 1) \div nsfx) + 1])
                        \o suffixes[((k - 1) % nsfx) + 1]]
    IN  SelectSeq(cand, LAMBDA f : f \in fs)

RECURSIVE Split(_)
\* strings.Split(out, "-L"); the output of pkg-config is a sequence of tokens:
\* the separator "-L", white space, and directory text
Split(out) ==
    IF out = <<>> THEN << <<>> >>
    ELSE LET rest == Split(Tail(out))
         IN  IF Head(out) = "-L" THEN << <<>> >> \o rest
             ELSE << <<Head(out)>> \o Head(rest) >> \o Tail(rest)

\* strings.TrimSpace(v), as the string the remaining tokens spell
TrimSpace(v) ==
    LET space(t) == t \in {" ", "\n"}
        RECURSIVE left(_)
        left(w) == IF w # <<>> /\ space(Head(w)) THEN left(Tail(w)) ELSE w
        RECURSIVE right(_)
        right(w) == IF w # <<>> /\ space(w[Len(w)])
                    THEN right(SubSeq(w, 1, Len(w) - 1)) ELSE w
        RECURSIVE text(_)
        text(w) == IF w = <<>> THEN "" ELSE Head(w) \o text(Tail(w))
    IN  text(right(left(v)))

RECURSIVE pkgConfLoop(_, _, _, _)
\* for _, v := range outs { c := TrimSpace(v); if c == "" { continue };
\*   g := findSos(c, name); if len(g) > 0 { return g } }; return []string{}
pkgConfLoop(fs, nm, outs, name) ==
    IF outs = <<>> THEN [sos |-> <<>>, probed |-> <<>>]
    ELSE LET c == TrimSpace(Head(outs))
             g == findSos(fs, nm, c, name)
             r == pkgConfLoop(fs, nm, Tail(outs), name)
         IN  IF c = "" THEN r
             ELSE IF Len(g) > 0 THEN [sos |-> g, probed |-> <<c>>]
             ELSE [sos |-> r.sos, probed |-> <<c>> \o r.probed]

\* findPkgConf: a failed pkg-config gives nothing
findPkgConf(e, nm, name) ==
    IF e.pkgconf.err THEN [sos |-> <<>>, probed |-> <<>>]
    ELSE pkgConfLoop(e.fs, nm, Split(e.pkgconf.out), name)

RECURSIVE pathsLoop(_, _, _, _)
\* for _, p := range gp { g := findSos(p, name); if len(g) > 0 { return g } }
pathsLoop(fs, nm, gp, name) ==
    IF gp = <<>> THEN [sos |-> <<>>, probed |-> <<>>]
    ELSE LET g == findSos(fs, nm, Head(gp), name)
             r == pathsLoop(fs, nm, Tail(gp), name)
         IN  IF Len(g) > 0 THEN [sos |-> g, probed |-> <<Head(gp)>>]
             ELSE [sos |-> r.sos, probed |-> <<Head(gp)>> \o r.probed]

\* GetPaths after the environment variables: the paths of the architecture,
\* then pkg-config, then the panic
lookupPaths(e, nm, name) ==
    LET gp == IF e.arch \in DOMAIN paths THEN paths[e.arch] ELSE <<>>
        a == pathsLoop(e.fs, nm, gp, name)
        g == findPkgConf(e, nm, name)
    IN  IF Len(a.sos) > 0
        THEN [panic |-> FALSE, sos |-> a.sos, probed |-> a.probed]
        ELSE [panic |-> Len(g.sos) = 0, sos |-> g.sos,
              probed |-> a.probed \o g.probed]

\* a GetPaths that goes on to the other places when the folder has nothing
GetPaths_FallThrough(e, nm, name) ==
    LET v == Getenv(e, "PUREGOTK_" \o name \o "_PATH")
        ep == Getenv(e, "PUREGOTK_LIB_FOLDER")
        g == findSos(e.fs, nm, ep, name)
        l == lookupPaths(e, nm, name)
    IN  IF v # "" THEN [panic |-> FALSE, sos |-> <<v>>, probed |-> <<>>]
        ELSE IF ep # "" /\ Len(g) > 0
        THEN [panic |-> FALSE, sos |-> g, probed |-> <<ep>>]
        ELSE IF ep # ""
        THEN [panic |-> l.panic, sos |-> l.sos, probed |-> <<ep>> \o l.probed]
        ELSE l

\* GetPaths(name): the result, whether it panicked, and the directories it
\* passed to findSos
GetPaths(e, nm, name) ==
    LET v == Getenv(e, "PUREGOTK_" \o name \o "_PATH")
        ep == Getenv(e, "PUREGOTK_LIB_FOLDER")
        g == findSos(e.fs, nm, ep, name)
    IN  IF v # "" THEN [panic |-> FALSE, sos |-> <<v>>, probed |-> <<>>]
        ELSE IF ep # ""
        THEN [panic |-> Len(g) = 0, sos |-> g, probed |-> <<ep>>]
        ELSE lookupPaths(e, nm, name)

\* the environments of a call: the two variables set, unset or empty, an
\* architecture, the files that exist, and what pkg-config does
Envs ==
    LET gtk == MapSet(EmptyMap, "PUREGOTK_GTK_PATH", "/opt/libgtk-4.so")
        EnvVars ==
            {EmptyMap, gtk,
             MapSet(EmptyMap, "PUREGOTK_LIB_FOLDER", "/opt/gtk"),
             MapSet(gtk, "PUREGOTK_LIB_FOLDER", "/opt/gtk"),
             MapSet(MapSet(EmptyMap, "PUREGOTK_GTK_PATH", ""),
                    "PUREGOTK_LIB_FOLDER", "")}
        FsDirs == {"/app/lib/", "/usr/lib/x86_64-linux-gnu/", "/opt/gtk", "/pc/lib"}
        FsFiles ==
            {Join(d, n) \o x : d \in FsDirs,
                               n \in {"libgtk-4.so", "libgio-2.0.so"},
                               x \in {"", ".1"}}
        PkgConfs ==
            {[err |-> TRUE, out |-> <<>>],
             [err |-> FALSE, out |-> <<>>],
             [err |-> FALSE, out |-> <<"-L", "/pc/lib", "\n">>],
             [err |-> FALSE,
              out |-> <<"-L", "/pc/none", " ", "-L", "/pc/lib", "\n">>]}
    IN  {[vars |-> v, arch |-> a, fs |-> f, pkgconf |-> p] :
            v \in EnvVars, a \in {"amd64", "arm64", "riscv64"},
            f \in {x \in SUBSET FsFiles : Cardinality(x) <= MaxFiles},
            p \in PkgConfs}

GetPathsInit ==
    /\ NamesIdle
    /\ env \in Envs
    /\ IndexInit
    /\ SymIdle
    /\ SigIdle
    /\ MuxIdle

CallGetPaths(name) ==
    /\ got' = [name |-> name] @@ GetPaths(env, names, name)
    /\ UNCHANGED <<idxVars, symVars, sigVars, muxVars, names, pkgConfNames,
                   calls, env>>

\* a generated package registers its library and looks it up when it is
\* loaded; a panic ends the program
GetPathsNext ==
    /\ ~got.panic
    /\ \/ Len(calls) < MaxNameCalls /\ CallSetSharedLibraries
       \/ \E name \in LibNames : CallGetPaths(name)

SpecGetPaths == GetPathsInit /\ [][GetPathsNext]_vars

\* ------------------------------------------------- the lock of the index
\* the public operations of the index called from any thread, one step for
\* taking the lock, one for the critical section, one for the return

\* every operation takes callbacks.Lock() but GetCallback, which takes RLock()
lockKind_AllRead(op) == "R"

lockKind(op) == IF op = "GetCallback" THEN "R" ELSE "W"

\* Lock() goes ahead when nobody holds the mutex, RLock() when no writer does
rwCanLock(mu, kind) ==
    IF kind = "W" THEN mu.w = 0 /\ mu.r = {} ELSE mu.w = 0

rwLock(mu, kind, th) ==
    IF kind = "W" THEN [mu EXCEPT !.w = th] ELSE [mu EXCEPT !.r = @ \cup {th}]

\* Unlock() / RUnlock()
rwUnlock(mu, kind, th) ==
    IF kind = "W" THEN [mu EXCEPT !.w = 0] ELSE [mu EXCEPT !.r = @ \ {th}]

\* if handlerID == 0 { return } / if sourceID == 0 { return }: before the lock
returnsUnlocked(call) ==
    call.op \in {"SaveHandlerMapping", "SaveSourceMapping"} /\ call.hid = 0

\* if prevCbPtr == cbPtr { return }: a return from inside the critical section
returnsEarly(c, call) ==
    \/ /\ call.op = "SaveHandlerMapping"
       /\ call.hid \in DOMAIN c.handlerToCallback
       /\ c.handlerToCallback[call.hid] = call.cb
    \/ /\ call.op = "SaveSourceMapping"
       /\ call.hid \in DOMAIN c.sourceToCallback
       /\ c.sourceToCallback[call.hid] = call.cb

\* defer callbacks.RUnlock() / defer callbacks.Unlock()
deferred(op) == op \in {"GetCallback", "SaveHandlerMapping", "SaveSourceMapping"}

\* the unlock runs at the end of the function, and at an earlier return only
\* when it was deferred
releasesLock(op, early) == ~early \/ deferred(op)

\* the critical section of a call
criticalSection(c, call) ==
    CASE call.op = "GetCallback" -> c
      [] call.op = "SaveCallback" -> SaveCallback(c, call.cb, SlotOf(call.cb))
      [] call.op = "SaveCallbackWithClosure" ->
            SaveCallbackWithClosure(c, call.cb, SlotOf(call.cb), call.cb)
      [] call.op = "RemoveCallback" -> RemoveCallback(c, call.cb)
      [] call.op = "SaveHandlerMapping" -> SaveHandlerMapping(c, call.hid, call.cb)
      [] call.op = "RemoveCallbackByHandler" -> RemoveCallbackByHandler(c, call.hid)
      [] call.op = "SaveSourceMapping" -> SaveSourceMapping(c, call.hid, call.cb)
      [] call.op = "RemoveCallbackBySource" -> RemoveCallbackBySource(c, call.hid)

\* the calls of the public operations with closures from T, handler ids from
\* H and source ids from S
IndexCallsOver(T, H, S) ==
    {[sigLocInit EXCEPT !.op = op, !.cb = t] :
        op \in {"GetCallback", "SaveCallback", "SaveCallbackWithClosure",
                "RemoveCallback"}, t \in T}
    \cup {[sigLocInit EXCEPT !.op = "SaveHandlerMapping", !.hid = h, !.cb = t] :
            h \in H, t \in T}
    \cup {[sigLocInit EXCEPT !.op = "SaveSourceMapping", !.hid = x, !.cb = t] :
            x \in S, t \in T}
    \cup {[sigLocInit EXCEPT !.op = "RemoveCallbackByHandler", !.hid = h] : h \in H}
    \cup {[sigLocInit EXCEPT !.op = "RemoveCallbackBySource", !.hid = x] : x \in S}

\* the calls a thread may make
IndexCalls == IndexCallsOver(Tokens, HandlerIds, SourceIds)

\* thread th calls an operation: it returns at once on a zero id, or waits
\* for the lock and takes it
K_Lock(th) ==
    /\ pc[th] = "idle"
    /\ \E call \in IndexCalls :
        IF returnsUnlocked(call)
        THEN /\ loc' = [loc EXCEPT ![th] = call]
             /\ UNCHANGED <<callbacks, pc>>
        ELSE /\ rwCanLock(callbacks.mu, lockKind(call.op))
             /\ callbacks' = [callbacks EXCEPT
                                 !.mu = rwLock(@, lockKind(call.op), th)]
             /\ loc' = [loc EXCEPT ![th] = call]
             /\ pc' = [pc EXCEPT ![th] = "k_in"]
    /\ UNCHANGED <<existence, last, symVars, conn, nextHandler, returned, owed,
                   slotAllocs, muxVars, libVars>>

\* the critical section, up to the return statement it reaches
K_Body(th) ==
    /\ pc[th] = "k_in"
    /\ callbacks' = criticalSection(callbacks, loc[th])
    /\ existence' = existenceAfter(callbacks',
            IF loc[th].op = "SaveCallbackWithClosure"
               /\ loc[th].cb \notin DOMAIN callbacks.callbackRefCount
            THEN {loc[th].cb} ELSE {})
    /\ loc' = [loc EXCEPT ![th].ok = returnsEarly(callbacks, loc[th])]
    /\ pc' = [pc EXCEPT ![th] = "k_out"]
    /\ UNCHANGED <<last, symVars, conn, nextHandler, returned, owed, slotAllocs,
                   muxVars, libVars>>

\* the return: the unlock at the end of the function or the deferred one
K_Return(th) ==
    /\ pc[th] = "k_out"
    /\ callbacks' =
          IF releasesLock(loc[th].op, loc[th].ok)
          THEN [callbacks EXCEPT !.mu = rwUnlock(@, lockKind(loc[th].op), th)]
          ELSE callbacks
    /\ loc' = [loc EXCEPT ![th] = sigLocInit]
    /\ pc' = [pc EXCEPT ![th] = "idle"]
    /\ UNCHANGED <<existence, last, symVars, conn, nextHandler, returned, owed,
                   slotAllocs, muxVars, libVars>>

IndexLockNext ==
    \E th \in Threads :
        \/ K_Lock(th)
        \/ K_Body(th)
        \/ K_Return(th)

\* the index called from several threads
SpecIndexLock == SigInit /\ [][IndexLockNext]_vars

\* ------------------------------------------------- what a call touches
\* one caller of the index with three closures and two handler ids, so that
\* a call leaves a closure and an id it does not name

\* a whole call of a public operation; loc[1] keeps its arguments
F_Call ==
    \E call \in IndexCallsOver((1..MaxFrameToken), (0..MaxFrameId), SourceIds) :
        /\ callbacks' = criticalSection(callbacks, call)
        /\ existence' = existenceAfter(callbacks',
                IF call.op = "SaveCallbackWithClosure"
                   /\ call.cb \notin DOMAIN callbacks.callbackRefCount
                THEN {call.cb} ELSE {})
        /\ last' = [op |-> call.op, tok |-> call.cb]
        /\ loc' = [loc EXCEPT ![1] = call]
        /\ UNCHANGED <<symVars, pc, conn, nextHandler, returned, owed, slotAllocs,
                       muxVars, libVars>>

SpecFrame == SigInit /\ [][F_Call]_vars

\* the entry of key k in map m, or that there is none
EntryOf(m, k) == IF k \in DOMAIN m THEN <<TRUE, m[k]>> ELSE <<FALSE, 0>>

\* what the index holds for token t
TokenState(c, t) ==
    <<EntryOf(c.refs, t), EntryOf(c.closures, t), EntryOf(c.callbackRefCount, t)>>

\* --------------------------------------- the index and the multiplexer
\* one program using both: closures registered and mapped to source ids in
\* the index, sources registered, added, dispatched and removed through the
\* multiplexer, in any order
BothNext ==
    \/ CallSaveCallbackWithClosure
    \/ CallSaveSourceMapping
    \/ CallRemoveCallbackBySource
    \/ CallRemoveCallback
    \/ M_Register
    \/ M_NativeAdd
    \/ M_SaveMapping
    \/ M_Remove
    \/ M_FnLookup(1)
    \/ M_FnCall(1)
    \/ M_FnCleanup(1)
    \/ M_OnceLookup(1)
    \/ M_OnceCall(1)

SpecBoth == MuxInit /\ [][BothNext]_vars

\* ------------------------------------------------------------------ claims
\* callbackRefCount[t], a missing entry read as 0
Count(c, t) == IF t \in DOMAIN c.callbackRefCount THEN c.callbackRefCount[t] ELSE 0

\* C1: when RemoveCallbackByHandler or RemoveCallbackBySource removes a mapping to
\* a token t that SaveCallbackWithClosure registered, t stays in refs, closures and
\* callbackRefCount if some other handler or source id still maps to t, and is gone
\* from all three otherwise.
C1_SharedClosureSurvives ==
    [][\A t \in Tokens :
        (/\ last'.op \in {"RemoveCallbackByHandler", "RemoveCallbackBySource"}
         /\ last'.tok = t
         /\ NumMappings(callbacks', t) < NumMappings(callbacks, t)
         /\ t \in DOMAIN callbacks.refs
         /\ t \in DOMAIN callbacks.closures)
        => IF NumMappings(callbacks', t) > 0
           THEN Present(callbacks', t)
           ELSE Absent(callbacks', t)]_vars

\* a registered closure mapped from a handler id and a source id has just lost its
\* handler mapping and is still retained through the source id
C1_Witness ==
    /\ last.op = "RemoveCallbackByHandler"
    /\ last.tok \in Tokens
    /\ Present(callbacks, last.tok)
    /\ \E s \in DOMAIN callbacks.sourceToCallback :
           callbacks.sourceToCallback[s] = last.tok
    /\ \A h \in DOMAIN callbacks.handlerToCallback :
           callbacks.handlerToCallback[h] # last.tok

\* C2: after a run of SaveHandlerMapping/SaveSourceMapping calls with non-zero ids
\* and as many matching removals, every token a save named has no reference count
\* and is absent from refs and closures.
C2_RefCountSymmetry ==
    (phase = "remove" /\ \A k \in SaveKeys : saved[k] = 0)
    => \A t \in touched : Count(callbacks, t) = 0 /\ Absent(callbacks, t)

\* C5 as stated: the stored count equals the number of mappings to the token.
C5_CountEqualsMappings ==
    \A t \in Tokens :
        /\ Count(callbacks, t) = NumMappings(callbacks, t)
        /\ Count(callbacks, t) >= 0

\* C5 amended: the stored count equals the number of handler and source mappings
\* to the token, plus one when SaveCallbackWithClosure created the count entry
\* (the registry's own reference); it is never negative.
C5_CountIsMappingsPlusExistence ==
    \A t \in Tokens :
        /\ Count(callbacks, t) =
               NumMappings(callbacks, t) + (IF t \in existence THEN 1 ELSE 0)
        /\ Count(callbacks, t) >= 0

\* one closure holds the registry's reference and a mapping, another only a mapping
C5_Witness ==
    \E t, u \in Tokens :
        /\ t \in existence
        /\ NumMappings(callbacks, t) = 1
        /\ Count(callbacks, t) = 2
        /\ u \notin existence
        /\ NumMappings(callbacks, u) = 1
        /\ Count(callbacks, u) = 1

\* C3 as stated: every handler id and source id in the index maps to a token that
\* is in the registry with its closure retained, and the closure behind the slot of
\* every live native connection is still retained.
C3_MappedClosuresRetained ==
    /\ \A h \in DOMAIN callbacks.handlerToCallback :
           Present(callbacks, callbacks.handlerToCallback[h])
    /\ \A s \in DOMAIN callbacks.sourceToCallback :
           Present(callbacks, callbacks.sourceToCallback[s])
    /\ \A h \in DOMAIN conn : conn[h].tok \in DOMAIN callbacks.closures

\* C4: a ConnectSignal call that finds its closure already registered allocates no
\* slot; when it returns, the slot it passed to the native connect is the one
\* GetCallback reports for the closure, every live connection of the closure uses
\* that slot, and every non-zero handler id of the closure is in handlerToCallback
\* with the closure's token as value.
C4_SlotReuse ==
    \A th \in Threads :
        (pc[th] = "idle" /\ loc[th].op = "ConnectSignal")
        => LET cb == loc[th].cb
           IN  /\ loc[th].reg0 => slotAllocs = loc[th].allocs0
               /\ cb \in DOMAIN callbacks.refs
               /\ callbacks.refs[cb] = loc[th].slot
               /\ loc[th].hid # 0 =>
                      /\ loc[th].hid \in DOMAIN callbacks.handlerToCallback
                      /\ callbacks.handlerToCallback[loc[th].hid] = cb
               /\ \A h \in DOMAIN conn :
                      conn[h].tok = cb =>
                          /\ conn[h].slot = loc[th].slot
                          /\ h \in DOMAIN callbacks.handlerToCallback
                          /\ callbacks.handlerToCallback[h] = cb

\* the second ConnectSignal of one closure has returned: one slot allocated, two
\* live connections with distinct handler ids
C4_Witness ==
    \E th \in Threads :
        /\ pc[th] = "idle"
        /\ loc[th].op = "ConnectSignal"
        /\ loc[th].reg0
        /\ loc[th].hid # 0
        /\ slotAllocs = 1
        /\ \E h \in DOMAIN conn :
               /\ h # loc[th].hid
               /\ conn[h].tok = loc[th].cb
               /\ loc[th].hid \in DOMAIN conn

\* C6: a source registered with once = true is invoked at most once, whatever the
\* number of sequential or concurrent invocations of the one-shot entry point and
\* of removals; from the moment a dispatch has taken its entry the dispatch id is
\* not in the dispatch table; and the step in which onceFn finds the entry removes
\* it and its reverse mapping before the closure is invoked.
C6_OnceAtMostOnce ==
    /\ [](\A i \in 1..Len(regs) :
            regs[i].once =>
                /\ invoked[regs[i].clo] + InFlight(regs[i].clo) <= 1
                /\ invoked[regs[i].clo] + InFlight(regs[i].clo) = 1
                       => regs[i].id \notin DOMAIN sourceTrampolines.funcs)
    /\ [][\A th \in Threads :
            (pc[th] = "idle" /\ pc'[th] = "once_call")
            => /\ loc'[th].id \in DOMAIN sourceTrampolines.funcs
               /\ invoked' = invoked
               /\ loc'[th].id \notin DOMAIN sourceTrampolines'.funcs
               /\ \A s \in DOMAIN sourceTrampolines'.sourceToDataID :
                      sourceTrampolines'.sourceToDataID[s] # loc'[th].id]_vars

\* a one-shot source has fired once and a second invocation of the one-shot entry
\* point with its id found nothing
C6_Witness ==
    \E i \in 1..Len(regs) :
        /\ regs[i].once
        /\ invoked[regs[i].clo] = 1
        /\ [id |-> regs[i].id, ret |-> onceFnAbsent] \in missed
        /\ regs[i].id \notin DOMAIN sourceTrampolines.funcs

\* C7: a repeating source whose mapping was saved under a non-zero source id and
\* then removed before any dispatch is never invoked; its dispatch id is in neither
\* the dispatch table nor the reverse mapping, and every later invocation of the
\* repeating entry point with the id reported 0.
C7_RemovedBeforeFire ==
    \A i \in 1..Len(regs) :
        (/\ ~regs[i].once
         /\ regs[i].clo \in DOMAIN removed
         /\ removed[regs[i].clo].when = "early")
        => /\ regs[i].sid # 0
           /\ invoked[regs[i].clo] = 0
           /\ InFlight(regs[i].clo) = 0
           /\ regs[i].id \notin DOMAIN sourceTrampolines.funcs
           /\ regs[i].sid \notin DOMAIN sourceTrampolines.sourceToDataID
           /\ \A s \in DOMAIN sourceTrampolines.sourceToDataID :
                  sourceTrampolines.sourceToDataID[s] # regs[i].id
           /\ \A m \in missed : m.id = regs[i].id => m.ret = 0

\* a repeating source was removed before any dispatch, and the repeating entry
\* point was invoked with its id afterwards
C7_Witness ==
    \E i \in 1..Len(regs) :
        /\ ~regs[i].once
        /\ regs[i].clo \in DOMAIN removed
        /\ removed[regs[i].clo].when = "early"
        /\ [id |-> regs[i].id, ret |-> fnAbsent] \in missed

\* C8: once removeSourceTrampolineBySourceID has returned for a repeating source,
\* no dispatch that looks the id up afterwards invokes the closure; the dispatches
\* that had finished their lookup before the removal invoke it once each, so the
\* invocations made and in flight stay what they were at the removal.
C8_RemovalVsDispatch ==
    /\ \A th \in Threads :
           pc[th] \in {"fn_call", "fn_cleanup"} => ~loc[th].late
    /\ \A i \in 1..Len(regs) :
           (~regs[i].once /\ regs[i].clo \in DOMAIN removed)
           => /\ regs[i].id \notin DOMAIN sourceTrampolines.funcs
              /\ invoked[regs[i].clo] + InFlight(regs[i].clo)
                     = removed[regs[i].clo].total

\* a repeating source was removed while a dispatch was past its lookup; that
\* dispatch has invoked the closure, and a later dispatch found the id absent
C8_Witness ==
    \E i \in 1..Len(regs) :
        /\ ~regs[i].once
        /\ regs[i].clo \in DOMAIN removed
        /\ removed[regs[i].clo].when = "inflight"
        /\ InFlight(regs[i].clo) = 0
        /\ invoked[regs[i].clo] >= 1
        /\ [id |-> regs[i].id, ret |-> fnAbsent] \in missed

\* C9: the multiplexer has allocated exactly two slots, both at initialization, and
\* every registration returned the one-shot entry point if once is true and the
\* repeating entry point otherwise.
C9_TwoSharedSlots ==
    /\ slotAllocs = 2
    /\ {sourceTrampolineCb, sourceTrampolineOnceCb} = {1, 2}
    /\ \A i \in 1..Len(regs) :
           regs[i].entry = IF regs[i].once THEN sourceTrampolineOnceCb
                           ELSE sourceTrampolineCb

\* a repeating and a one-shot source are registered, one closure has been invoked
\* and one source removed
C9_Witness ==
    /\ \E i, j \in 1..Len(regs) : regs[i].once /\ ~regs[j].once
    /\ \E clo \in DOMAIN invoked : invoked[clo] >= 1
    /\ DOMAIN removed # {}

\* C10 as stated: the dispatch ids registerSourceFunc returned are strictly
\* increasing in lock order, never 0, and never an id whose dispatch-table entry
\* was outstanding.
C10_IdsIncreasingNeverReused ==
    /\ \A i \in 1..Len(regs) : regs[i].id # 0 /\ ~regs[i].reused
    /\ \A i, j \in 1..Len(regs) : i < j => regs[i].id < regs[j].id

C12_ReplaceReleasesOld ==
    [][\A A, B \in Tokens :
        A # B =>
            /\ \A h \in HandlerIds :
                   (/\ last'.op = "SaveHandlerMapping"
                    /\ last'.tok = B
                    /\ h \in DOMAIN callbacks.handlerToCallback
                    /\ callbacks.handlerToCallback[h] = A
                    /\ callbacks'.handlerToCallback[h] = B)
                   => /\ Count(callbacks', B) = Count(callbacks, B) + 1
                      /\ NumMappings(callbacks', A) = 0 => Absent(callbacks', A)
            /\ \A s \in SourceIds :
                   (/\ last'.op = "SaveSourceMapping"
                    /\ last'.tok = B
                    /\ s \in DOMAIN callbacks.sourceToCallback
                    /\ callbacks.sourceToCallback[s] = A
                    /\ callbacks'.sourceToCallback[s] = B)
                   => /\ Count(callbacks', B) = Count(callbacks, B) + 1
                      /\ NumMappings(callbacks', A) = 0 => Absent(callbacks', A)]_vars


\* C13: removal is idempotent.  RemoveCallbackByHandler and
\* RemoveCallbackBySource with an id that maps to nothing, and RemoveCallback
\* with a token that is in none of refs, closures and callbackRefCount, leave
\* the whole index unchanged; removeSourceTrampolineBySourceID with a source id
\* that has no reverse mapping leaves the multiplexer's tables unchanged; a
\* DisconnectSignal for a handler id whose connection is already gone (a second
\* disconnect, or the id 0 of a failed connect) leaves every count, slot,
\* closure and mapping as it was.
C13_RemovalIdempotent ==
    /\ [](\A sid \in 0..MaxNativeSource :
              sid \notin DOMAIN sourceTrampolines.sourceToDataID
              => removeSourceTrampolineBySourceID(sourceTrampolines, sid)
                     = sourceTrampolines)
    /\ [][/\ (/\ last'.op \in {"RemoveCallbackByHandler", "RemoveCallbackBySource"}
              /\ last'.tok = 0)
             => callbacks' = callbacks
          /\ (/\ last'.op = "RemoveCallback"
              /\ Absent(callbacks, last'.tok))
             => callbacks' = callbacks
          /\ (/\ last'.op = "DisconnectSignal"
              /\ conn' = conn)
             => /\ last'.tok = 0
                /\ callbacks' = callbacks
                /\ slotAllocs' = slotAllocs]_vars

\* a handler id was disconnected twice while another connection is still held,
\* and an unknown source id was removed while a source mapping exists
C13_Witness ==
    /\ last = [op |-> "DisconnectSignal", tok |-> 0]
    /\ returned = {1, 2}
    /\ DOMAIN conn = {2}
    /\ DOMAIN callbacks.handlerToCallback = {2}
    /\ DOMAIN callbacks.sourceToCallback # {}
    /\ \E t \in Tokens : Count(callbacks, t) = 2


\* C14: a dispatch whose id is not in funcs when either entry point looks it
\* up, because it was never registered, has fired or was removed, invokes no
\* closure, leaves nextID, funcs and sourceToDataID as they are, releases the
\* mutex it took, and returns at once; the repeating entry point returns 0.
\* The lookup misses for every id outside funcs, registered once or never.
C14_AbsentDispatch ==
    /\ [](\A id \in 0..(Word - 1) :
              id \notin DOMAIN sourceTrampolines.funcs
              => ~fnLookup(sourceTrampolines, id).ok)
    /\ [][\A th \in Threads :
           (/\ pc[th] \in {"fn_locked", "once_locked"}
            /\ pc'[th] # pc[th]
            /\ loc[th].id \notin DOMAIN sourceTrampolines.funcs)
           => /\ pc'[th] = "idle"
              /\ invoked' = invoked
              /\ sourceTrampolines.mu = th
              /\ sourceTrampolines' = [sourceTrampolines EXCEPT !.mu = 0]
              /\ IF pc[th] = "fn_locked" THEN fnRet' = 0 ELSE fnRet' = fnRet]_vars

\* the one-shot entry point has been called with an id that has fired, the
\* repeating one with an id that was removed, and the mutex is free
C14_Witness ==
    /\ sourceTrampolines.mu = 0
    /\ \A th \in Threads : pc[th] = "idle"
    /\ \E i, j \in 1..Len(regs) :
        /\ regs[i].once /\ invoked[regs[i].clo] = 1
        /\ [id |-> regs[i].id, ret |-> onceFnAbsent] \in missed
        /\ ~regs[j].once /\ invoked[regs[j].clo] = 0
        /\ regs[j].clo \in DOMAIN removed
        /\ [id |-> regs[j].id, ret |-> fnAbsent] \in missed
    /\ fnRet = 0

\* C19: a thread holds the multiplexer's mutex only inside the critical
\* sections of a dispatch, never while its closure runs and never after the
\* entry point has returned or between the closure's return and the cleanup,
\* so the calls a dispatched closure makes into the multiplexer find the
\* mutex free or held by a thread that is about to release it; every dispatch
\* that has begun returns.
C19_DispatchNeverBlocks ==
    /\ [](\A th \in Threads :
              pc[th] \in {"idle", "fn_call", "once_call", "fn_cleanup"}
              => sourceTrampolines.mu # th)
    /\ \A th \in Threads : (pc[th] # "idle") ~> (pc[th] = "idle")

\* a one-shot closure has run, a repeating closure's source was removed while
\* the closure was being dispatched, and both dispatches have returned
C19_Witness ==
    /\ sourceTrampolines.mu = 0
    /\ \A th \in Threads : pc[th] = "idle"
    /\ \E i, j \in 1..Len(regs) :
        /\ regs[i].once /\ ~regs[j].once
        /\ invoked[regs[i].clo] = 1
        /\ regs[j].clo \in DOMAIN removed /\ removed[regs[j].clo].when = "inflight"
        /\ invoked[regs[j].clo] >= 1


\* C15: the id 0 is never a key.  In every state SaveHandlerMapping(0, t) and
\* SaveSourceMapping(0, t) return the index as it is, for every token t, and
\* saveSourceTrampolineMapping(0, d) returns the multiplexer as it is, for
\* every dispatch id d; handlerToCallback, sourceToCallback and sourceToDataID
\* have no key 0.
C15_ZeroIdNeverSaved ==
    /\ \A t \in Tokens :
        /\ SaveHandlerMapping(callbacks, 0, t) = callbacks
        /\ SaveSourceMapping(callbacks, 0, t) = callbacks
    /\ \A d \in 0..(Word - 1) :
        saveSourceTrampolineMapping(sourceTrampolines, 0, d) = sourceTrampolines
    /\ 0 \notin DOMAIN callbacks.handlerToCallback
    /\ 0 \notin DOMAIN callbacks.sourceToCallback
    /\ 0 \notin DOMAIN sourceTrampolines.sourceToDataID

\* a ConnectSignal whose native connect returned 0 has saved the handler id 0,
\* and the last call was a SaveSourceMapping that added no source mapping,
\* hence one with source id 0, while a handler mapping and a count exist
C15_Witness ==
    /\ 0 \in returned
    /\ last.op = "SaveSourceMapping"
    /\ DOMAIN callbacks.sourceToCallback = {}
    /\ DOMAIN callbacks.handlerToCallback # {}
    /\ Count(callbacks, last.tok) >= 1


\* C16: saving an id again to the token it already maps to changes nothing:
\* for every handler id h mapped to t, SaveHandlerMapping(h, t) returns the
\* index as it is, and RemoveCallbackByHandler(h) after it unmaps h and either
\* leaves t with one reference less or, when no other id maps to t, evicts t;
\* the same for source ids with SaveSourceMapping and RemoveCallbackBySource.
C16_ResaveSameIsNoOp ==
    /\ \A h \in DOMAIN callbacks.handlerToCallback :
        LET t == callbacks.handlerToCallback[h]
            c1 == SaveHandlerMapping(SaveHandlerMapping(callbacks, h, t), h, t)
            c2 == RemoveCallbackByHandler(c1, h)
        IN  /\ c1 = callbacks
            /\ h \notin DOMAIN c2.handlerToCallback
            /\ IF NumMappings(c2, t) = 0 THEN Absent(c2, t)
               ELSE Count(c2, t) = Count(callbacks, t) - 1
    /\ \A s \in DOMAIN callbacks.sourceToCallback :
        LET t == callbacks.sourceToCallback[s]
            c1 == SaveSourceMapping(SaveSourceMapping(callbacks, s, t), s, t)
            c2 == RemoveCallbackBySource(c1, s)
        IN  /\ c1 = callbacks
            /\ s \notin DOMAIN c2.sourceToCallback
            /\ IF NumMappings(c2, t) = 0 THEN Absent(c2, t)
               ELSE Count(c2, t) = Count(callbacks, t) - 1

\* a handler id and a source id map to one registered token, which holds a
\* reference for each and one for its registration, and the last call saved a
\* mapping to that token
C16_Witness ==
    \E t \in Tokens, h \in DOMAIN callbacks.handlerToCallback,
       s \in DOMAIN callbacks.sourceToCallback :
        /\ callbacks.handlerToCallback[h] = t
        /\ callbacks.sourceToCallback[s] = t
        /\ t \in DOMAIN callbacks.refs
        /\ Count(callbacks, t) = 3
        /\ last = [op |-> "SaveSourceMapping", tok |-> t]


\* C17: when RemoveCallback(t) returns, t is in none of refs, closures and
\* callbackRefCount, whatever count it had, no handler or source id maps to t,
\* and RemoveCallbackByHandler or RemoveCallbackBySource for an id that mapped
\* to t before the call leaves the index as it is.
C17_RemoveCallbackPurges ==
    [][last'.op = "RemoveCallback"
       => LET t == last'.tok
          IN  /\ Absent(callbacks', t)
              /\ NumMappings(callbacks', t) = 0
              /\ \A h \in DOMAIN callbacks.handlerToCallback :
                    callbacks.handlerToCallback[h] = t
                    => RemoveCallbackByHandler(callbacks', h) = callbacks'
              /\ \A s \in DOMAIN callbacks.sourceToCallback :
                    callbacks.sourceToCallback[s] = t
                    => RemoveCallbackBySource(callbacks', s) = callbacks']_vars

\* RemoveCallback has just removed a token while the other token keeps its
\* registration and a mapping
C17_Witness ==
    /\ last.op = "RemoveCallback"
    /\ Absent(callbacks, last.tok)
    /\ NumMappings(callbacks, last.tok) = 0
    /\ \E u \in Tokens \ {last.tok} :
        /\ u \in DOMAIN callbacks.refs
        /\ NumMappings(callbacks, u) = 1
        /\ Count(callbacks, u) = 2


\* C18: when two threads have each returned from a ConnectSignal with the same
\* closure and both native connections stand, only one of the two calls asked
\* the Slot Provider for a slot, the two calls used one slot, both connections
\* were made with it, and refs holds it for the closure.
C18_OneSlotPerClosure ==
    \A t1, t2 \in Threads :
        (/\ t1 # t2
         /\ pc[t1] = "idle" /\ pc[t2] = "idle"
         /\ loc[t1].op = "ConnectSignal" /\ loc[t2].op = "ConnectSignal"
         /\ loc[t1].cb = loc[t2].cb
         /\ loc[t1].hid \in DOMAIN conn /\ loc[t2].hid \in DOMAIN conn)
        => /\ loc[t1].ok \/ loc[t2].ok
           /\ loc[t1].slot = loc[t2].slot
           /\ conn[loc[t1].hid].slot = conn[loc[t2].hid].slot
           /\ loc[t1].cb \in DOMAIN callbacks.refs
           /\ callbacks.refs[loc[t1].cb] = conn[loc[t1].hid].slot


\* C20: a nil registration has no effect.  In every state registerSourceFunc
\* (nil, once) and registerSourceOnceFunc(nil) return entry point 0 and
\* dispatch id 0 with nextID, funcs and sourceToDataID as they are, and
\* NewCallbackNullable(nil) returns 0 with the number of requested slots as it
\* is; a call of one of them changes neither the multiplexer nor the slot
\* count.
C20_NilRegistrationSkipped ==
    /\ [](/\ \A once \in BOOLEAN :
                registerSourceFunc(sourceTrampolines, NilFn, once)
                    = [st |-> sourceTrampolines, trampolineCb |-> 0, userData |-> 0]
          /\ registerSourceOnceFunc(sourceTrampolines, NilFn)
                 = [st |-> sourceTrampolines, trampolineCb |-> 0, userData |-> 0]
          /\ NewCallbackNullable(slotAllocs, NilFn)
                 = [refPtr |-> 0, slots |-> slotAllocs])
    /\ [][/\ (last' # last /\ last'.op = "registerNil")
             => /\ last'.tok = 0
                /\ sourceTrampolines' = sourceTrampolines
                /\ slotAllocs' = slotAllocs
          /\ (last' # last /\ last'.op = "NewCallbackNullable" /\ last'.tok = 0)
             => /\ slotAllocs' = slotAllocs
                /\ sourceTrampolines' = sourceTrampolines]_vars

\* a nil registration was the last call, after a registration with a function
\* that took dispatch id 1 and a NewCallbackNullable that took a slot
C20_Witness ==
    /\ last = [op |-> "registerNil", tok |-> 0]
    /\ sourceTrampolines.nextID = 1
    /\ DOMAIN sourceTrampolines.funcs = {1}
    /\ SignalSlots = 1


\* C21: registerSourceOnceFunc(fn) with a function stores, under the next id,
\* an entry with once = true whose closure wraps fn and can only report stop,
\* and returns the one-shot entry point.  Every wrapped closure in funcs has
\* once = true, the repeating entry point never calls a wrapped closure, and
\* a dispatch through the one-shot entry point calls a wrapped closure that
\* has not run before and leaves it run exactly once.
C21_OnceFuncAdapter ==
    /\ [](LET fn == [clo |-> Len(regs) + 1, wrapped |-> FALSE]
              r == registerSourceOnceFunc(sourceTrampolines, fn)
          IN  /\ r.trampolineCb = sourceTrampolineOnceCb
              /\ r.userData = (sourceTrampolines.nextID + 1) % Word
              /\ r.st.funcs[r.userData] =
                     [fn |-> [clo |-> fn.clo, wrapped |-> TRUE], once |-> TRUE]
              /\ closureResults(r.st.funcs[r.userData].fn) = {FALSE})
    /\ [](\A id \in DOMAIN sourceTrampolines.funcs :
              sourceTrampolines.funcs[id].fn.wrapped
              => sourceTrampolines.funcs[id].once)
    /\ [](\A th \in Threads :
              /\ pc[th] \in {"fn_call", "fn_cleanup"} => ~loc[th].cb.wrapped
              /\ (pc[th] = "once_call" /\ loc[th].cb.wrapped)
                 => invoked[loc[th].cb.clo] = 0)
    /\ [][\A th \in Threads :
              (pc[th] = "once_call" /\ pc'[th] = "idle" /\ loc[th].cb.wrapped)
              => invoked'[loc[th].cb.clo] = 1]_vars

\* a closure registered with registerSourceOnceFunc is being dispatched through
\* the one-shot entry point, its entry already taken out of funcs
C21_Witness ==
    \E th \in Threads, i \in 1..Len(regs) :
        /\ pc[th] = "once_call"
        /\ loc[th].cb = [clo |-> regs[i].clo, wrapped |-> TRUE]
        /\ regs[i].entry = sourceTrampolineOnceCb
        /\ regs[i].id \notin DOMAIN sourceTrampolines.funcs
        /\ invoked[regs[i].clo] = 0


\* C22: with one caller, ConnectSignal has stored a new closure before it
\* makes the native connect and saves the handler mapping only after it;
\* DisconnectSignal has made the native disconnect before it calls
\* RemoveCallbackByHandler; as long as a native connection stands, its closure
\* is retained in the registry under the slot the connection was made with.
C22_RetainedWhileConnected ==
    /\ pc[1] = "cs_connect"
       => /\ loc[1].cb \in DOMAIN callbacks.closures
          /\ callbacks.refs[loc[1].cb] = loc[1].slot
    /\ (pc[1] = "cs_map" /\ loc[1].hid # 0)
       => /\ loc[1].hid \in DOMAIN conn
          /\ loc[1].hid \notin DOMAIN callbacks.handlerToCallback
    /\ pc[1] = "ds_remove" => loc[1].hid \notin DOMAIN conn
    /\ \A h \in DOMAIN conn :
        /\ conn[h].tok \in DOMAIN callbacks.closures
        /\ conn[h].tok \in DOMAIN callbacks.refs
        /\ callbacks.refs[conn[h].tok] = conn[h].slot

\* a handler was disconnected on the native side and its mapping is about to
\* be removed, while a second connection of the same closure stands
C22_Witness ==
    /\ pc[1] = "ds_remove"
    /\ loc[1].hid \in DOMAIN callbacks.handlerToCallback
    /\ \E h \in DOMAIN conn :
        /\ conn[h].tok = callbacks.handlerToCallback[loc[1].hid]
        /\ h \in DOMAIN callbacks.handlerToCallback
        /\ Count(callbacks, conn[h].tok) = 3


\* C23: after any sequence of SetPackageName and SetSharedLibraries calls, a
\* library name has a package name exactly if some call passed a non-empty
\* one for it, and then it is the one of the earliest such call; the same for
\* its list of shared objects and the calls that passed a non-empty list.
C23_FirstWriteWins ==
    \A libName \in LibNames :
        LET P == {i \in 1..Len(calls) : /\ calls[i].fn = "SetPackageName"
                                        /\ calls[i].lib = libName
                                        /\ calls[i].pkg # ""}
            S == {i \in 1..Len(calls) : /\ calls[i].fn = "SetSharedLibraries"
                                        /\ calls[i].lib = libName
                                        /\ calls[i].libs # <<>>}
        IN  /\ IF P = {} THEN libName \notin DOMAIN pkgConfNames
               ELSE /\ libName \in DOMAIN pkgConfNames
                    /\ \E i \in P : /\ \A j \in P : i <= j
                                    /\ pkgConfNames[libName] = calls[i].pkg
            /\ IF S = {} THEN libName \notin DOMAIN names
               ELSE /\ libName \in DOMAIN names
                    /\ \E i \in S : /\ \A j \in S : i <= j
                                    /\ names[libName] = calls[i].libs

\* an empty package name, a package name and then another package name were
\* passed for one library, which keeps the second call's name
C23_Witness ==
    /\ Len(calls) = 3
    /\ \A i \in 1..3 : calls[i].fn = "SetPackageName" /\ calls[i].lib = "GTK"
    /\ calls[1].pkg = ""
    /\ calls[2].pkg = "gtk4"
    /\ calls[3].pkg = "gtk4-unix-print"
    /\ pkgConfNames["GTK"] = "gtk4"

\* C24: GetPaths(name) returns the value of PUREGOTK_<name>_PATH alone and
\* probes nothing when that variable is not empty; otherwise, when
\* PUREGOTK_LIB_FOLDER is not empty, it probes that folder only and panics
\* if nothing is there; otherwise it probes the paths of the architecture in
\* list order and returns what the first path with a match holds; otherwise
\* it probes the directories pkg-config printed; it panics when all of that
\* gave nothing, and a call that returns never returns an empty list.
C24_PriorityOrder ==
    [][got' # got =>
        LET name == got'.name
            v == Getenv(env, "PUREGOTK_" \o name \o "_PATH")
            ep == Getenv(env, "PUREGOTK_LIB_FOLDER")
            probe(d) == findSos(env.fs, names, d, name)
            gp == IF env.arch \in DOMAIN paths THEN paths[env.arch] ELSE <<>>
            hits == {i \in DOMAIN gp : probe(gp[i]) # <<>>}
            first == CHOOSE i \in hits : \A j \in hits : i <= j
            outs == Split(env.pkgconf.out)
            pkgDirs == IF env.pkgconf.err THEN {}
                       ELSE {TrimSpace(outs[i]) : i \in DOMAIN outs} \ {""}
            np == Len(got'.probed)
        IN  /\ v # "" =>
                /\ ~got'.panic
                /\ got'.sos = <<v>>
                /\ got'.probed = <<>>
            /\ v = "" /\ ep # "" =>
                /\ got'.probed = <<ep>>
                /\ got'.panic <=> probe(ep) = <<>>
                /\ got'.sos = probe(ep)
            /\ v = "" /\ ep = "" /\ hits # {} =>
                /\ ~got'.panic
                /\ got'.probed = SubSeq(gp, 1, first)
                /\ got'.sos = probe(gp[first])
            /\ v = "" /\ ep = "" /\ hits = {} =>
                /\ np >= Len(gp)
                /\ SubSeq(got'.probed, 1, Len(gp)) = gp
                /\ \A i \in (Len(gp) + 1)..np : got'.probed[i] \in pkgDirs
                /\ got'.panic <=> \A d \in pkgDirs : probe(d) = <<>>
                /\ ~got'.panic =>
                    /\ np > Len(gp)
                    /\ got'.sos = probe(got'.probed[np])
                    /\ \A i \in (Len(gp) + 1)..(np - 1) :
                          probe(got'.probed[i]) = <<>>
            /\ got'.panic => got'.sos = <<>>
            /\ ~got'.panic => Len(got'.sos) > 0
    ]_vars

\* the folder variable is set, the folder holds no file of the library while
\* the first path of the architecture does, and the call panicked
C24_Witness ==
    /\ got.name # ""
    /\ got.panic
    /\ Getenv(env, "PUREGOTK_" \o got.name \o "_PATH") = ""
    /\ Getenv(env, "PUREGOTK_LIB_FOLDER") = "/opt/gtk"
    /\ got.probed = <<"/opt/gtk">>
    /\ findSos(env.fs, names, "/app/lib/", got.name) # <<>>

\* C25: in every reachable state of the callback index, a token with a
\* callbackRefCount entry has a count of at least 1 that exceeds the number of
\* handler and source mappings to it by 0 or by 1, and every token some
\* mapping points at has a callbackRefCount entry.
C25_CountBounds ==
    /\ \A t \in DOMAIN callbacks.callbackRefCount :
          /\ callbacks.callbackRefCount[t] >= 1
          /\ callbacks.callbackRefCount[t] - NumMappings(callbacks, t) \in {0, 1}
    /\ \A t \in Tokens :
          NumMappings(callbacks, t) >= 1 => t \in DOMAIN callbacks.callbackRefCount

\* one token was registered and then mapped, its count is one above its
\* mappings; another was only mapped, its count equals its mappings
C25_Witness ==
    /\ DOMAIN callbacks.callbackRefCount = {1, 2}
    /\ 1 \in DOMAIN callbacks.closures
    /\ NumMappings(callbacks, 1) = 1
    /\ callbacks.callbackRefCount[1] = 2
    /\ 2 \notin DOMAIN callbacks.closures
    /\ NumMappings(callbacks, 2) = 1
    /\ callbacks.callbackRefCount[2] = 1

\* C26: a closure that ConnectSignal registered does not stay in the index
\* without an owner.  Between calls, when DisconnectSignal has been called
\* with every handler id ConnectSignal returned for a closure (0 included),
\* the closure's token is in none of refs, closures and callbackRefCount.
C26_NoOrphanClosure ==
    \A t \in Tokens :
        ((\A th \in Threads : pc[th] = "idle") /\ owed[t] = {})
        => Absent(callbacks, t)

\* C27: in every reachable state of the multiplexer, whatever the order of
\* registrations, native adds, mapping saves, dispatches and removals, every
\* value of the reverse mapping sourceToDataID is a dispatch id that is in the
\* dispatch table funcs.
C27_NoStaleReverseMapping ==
    \A sid \in DOMAIN sourceTrampolines.sourceToDataID :
        sourceTrampolines.sourceToDataID[sid] \in DOMAIN sourceTrampolines.funcs

\* C28: the index is read and written under its lock only.  A thread inside
\* an operation that writes (every operation but GetCallback, so every caller
\* of acquireCallbackRef, releaseCallbackRef and hasCallbackMappings) holds
\* the exclusive lock and is alone inside; a thread inside GetCallback holds
\* the read lock and no writer is inside; a thread that has returned holds
\* nothing; and the maps change only in the critical section of the thread
\* that holds the exclusive lock.
C28_LockDiscipline ==
    /\ [](\A th \in Threads :
            LET inside == pc[th] \in {"k_in", "k_out"}
                writes == inside /\ loc[th].op # "GetCallback"
            IN  /\ writes =>
                    /\ callbacks.mu = [w |-> th, r |-> {}]
                    /\ \A o \in Threads \ {th} : pc[o] = "idle"
                /\ (inside /\ ~writes) =>
                    /\ callbacks.mu.w = 0
                    /\ th \in callbacks.mu.r
                /\ ~inside =>
                    /\ callbacks.mu.w # th
                    /\ th \notin callbacks.mu.r)
    /\ [][(\E f \in {"refs", "closures", "handlerToCallback",
                        "sourceToCallback", "callbackRefCount"} :
                callbacks'[f] # callbacks[f]) =>
            \E th \in Threads :
                /\ callbacks.mu.w = th
                /\ pc[th] = "k_in"
                /\ pc'[th] = "k_out"]_vars

\* a thread is at the early return of SaveHandlerMapping, the id already
\* mapped to the closure, and still holds the exclusive lock that its
\* deferred unlock is about to release
C28_Witness ==
    \E th \in Threads :
        /\ pc[th] = "k_out"
        /\ loc[th].op = "SaveHandlerMapping"
        /\ loc[th].ok
        /\ callbacks.mu.w = th
        /\ callbacks.handlerToCallback[loc[th].hid] = loc[th].cb

\* C29: in every reachable state of the callback index, every token with a
\* retained closure has a slot and a reference count, and a step that takes a
\* token out of refs, closures or callbackRefCount leaves it in none of the
\* three.
C29_ClosureHasSlotAndCount ==
    /\ [](/\ DOMAIN callbacks.closures \subseteq DOMAIN callbacks.refs
          /\ DOMAIN callbacks.closures \subseteq DOMAIN callbacks.callbackRefCount)
    /\ [][\A t \in Tokens :
            (\/ t \in DOMAIN callbacks.refs \ DOMAIN callbacks'.refs
             \/ t \in DOMAIN callbacks.closures \ DOMAIN callbacks'.closures
             \/ t \in DOMAIN callbacks.callbackRefCount
                        \ DOMAIN callbacks'.callbackRefCount)
            => Absent(callbacks', t)]_vars

\* RemoveCallbackByHandler found its id mapped to token 1 and released it for
\* good, token 2 keeps its closure with a slot and a count
C29_Witness ==
    /\ last = [op |-> "RemoveCallbackByHandler", tok |-> 1]
    /\ Absent(callbacks, 1)
    /\ Present(callbacks, 2)

\* C30: the index operations touch only what they name.  A removal by handler
\* id, by source id or by token leaves the refs, closures and callbackRefCount
\* entries of every token other than the one removed as they were, and leaves
\* every mapping to another token as it was; SaveHandlerMapping(h, B) and
\* SaveSourceMapping(s, B) leave every entry of the two mapping tables but the
\* one of that id as it was, and the entries of every token other than B and
\* the token the id mapped to before.
C30_CallsAreLocal ==
    [][LET call == loc'[1]
           c == callbacks
           d == callbacks'
           hprev == EntryOf(c.handlerToCallback, call.hid)
           sprev == EntryOf(c.sourceToCallback, call.hid)
           target == CASE call.op = "RemoveCallback" -> {call.cb}
                       [] call.op = "RemoveCallbackByHandler" ->
                            IF hprev[1] THEN {hprev[2]} ELSE {}
                       [] call.op = "RemoveCallbackBySource" ->
                            IF sprev[1] THEN {sprev[2]} ELSE {}
                       [] call.op = "SaveHandlerMapping" ->
                            {call.cb} \cup (IF hprev[1] THEN {hprev[2]} ELSE {})
                       [] call.op = "SaveSourceMapping" ->
                            {call.cb} \cup (IF sprev[1] THEN {sprev[2]} ELSE {})
                       [] OTHER -> (1..MaxFrameToken)
           removal == call.op \in {"RemoveCallback", "RemoveCallbackByHandler",
                                   "RemoveCallbackBySource"}
           save == call.op \in {"SaveHandlerMapping", "SaveSourceMapping"}
       IN  (removal \/ save) =>
            /\ \A t \in (1..MaxFrameToken) \ target : TokenState(d, t) = TokenState(c, t)
            /\ removal =>
                \A x \in (0..MaxFrameId) :
                    /\ EntryOf(c.handlerToCallback, x)[2] \notin target =>
                          EntryOf(d.handlerToCallback, x) = EntryOf(c.handlerToCallback, x)
                    /\ EntryOf(c.sourceToCallback, x)[2] \notin target =>
                          EntryOf(d.sourceToCallback, x) = EntryOf(c.sourceToCallback, x)
            /\ save =>
                \A x \in (0..MaxFrameId) :
                    /\ (call.op = "SaveHandlerMapping" => x # call.hid) =>
                          EntryOf(d.handlerToCallback, x) = EntryOf(c.handlerToCallback, x)
                    /\ (call.op = "SaveSourceMapping" => x # call.hid) =>
                          EntryOf(d.sourceToCallback, x) = EntryOf(c.sourceToCallback, x)
    ]_vars

\* SaveHandlerMapping(1, 2) has replaced another closure under handler id 1
\* while closure 3 is registered and mapped under handler id 2 and source id 1
C30_Witness ==
    /\ loc[1].op = "SaveHandlerMapping"
    /\ loc[1].hid = 1
    /\ loc[1].cb = 2
    /\ EntryOf(callbacks.handlerToCallback, 1) = <<TRUE, 2>>
    /\ Present(callbacks, 1)
    /\ NumMappings(callbacks, 1) = 0
    /\ Present(callbacks, 3)
    /\ EntryOf(callbacks.handlerToCallback, 2) = <<TRUE, 3>>
    /\ EntryOf(callbacks.sourceToCallback, 1) = <<TRUE, 3>>

\* C31: the index and the multiplexer are independent state.  A step of a
\* multiplexer operation (a registration, a native add, a mapping save, a
\* removal, a step of a dispatch) leaves refs, closures, handlerToCallback,
\* sourceToCallback and callbackRefCount as they were, and a step of an index
\* operation leaves the dispatch table, nextID and sourceToDataID as they
\* were; so a source id removed from one of them stays in the other.
C31_IndexAndMuxIndependent ==
    [][/\ (regs' # regs \/ pc' # pc \/ nextSource' # nextSource
           \/ sourceTrampolines' # sourceTrampolines)
          => callbacks' = callbacks
       /\ (last' # last \/ callbacks' # callbacks)
          => sourceTrampolines' = sourceTrampolines
       /\ \A s \in SourceIds :
            (s \in DOMAIN callbacks.sourceToCallback
                /\ s \in DOMAIN sourceTrampolines.sourceToDataID)
            => (s \in DOMAIN callbacks'.sourceToCallback
                \/ s \in DOMAIN sourceTrampolines'.sourceToDataID)
    ]_vars

\* source id 1 was saved in both; RemoveCallbackBySource(1) released its
\* closure from the index and the multiplexer still has the id and its entry
C31_Witness ==
    /\ last = [op |-> "RemoveCallbackBySource", tok |-> 1]
    /\ 1 \notin DOMAIN callbacks.sourceToCallback
    /\ 1 \in DOMAIN sourceTrampolines.sourceToDataID
    /\ sourceTrampolines.sourceToDataID[1] \in DOMAIN sourceTrampolines.funcs

\* C32: SaveCallbackWithClosure on a token that has a reference count leaves
\* the count as it was, on a token that has none it sets the count to 1; it
\* changes no handler mapping, no source mapping and no other token's count.
C32_RegistrationKeepsCount ==
    [][last'.op = "SaveCallbackWithClosure" =>
        LET t == last'.tok
            c == callbacks.callbackRefCount
            d == callbacks'.callbackRefCount
        IN  /\ t \in DOMAIN d
            /\ d[t] = (IF t \in DOMAIN c THEN c[t] ELSE 1)
            /\ \A u \in Tokens \ {t} : EntryOf(d, u) = EntryOf(c, u)
            /\ callbacks'.handlerToCallback = callbacks.handlerToCallback
            /\ callbacks'.sourceToCallback = callbacks.sourceToCallback
    ]_vars

\* token 1 was mapped under a handler id and a source id before it was
\* registered: after SaveCallbackWithClosure its closure is retained and its
\* count is still the 2 of its two mappings
C32_Witness ==
    /\ last = [op |-> "SaveCallbackWithClosure", tok |-> 1]
    /\ 1 \in DOMAIN callbacks.closures
    /\ NumMappings(callbacks, 1) = 2
    /\ callbacks.callbackRefCount[1] = 2

====
